---- MODULE Spec2Model ----
(***************************************************************************)
(* Model of the two engines of the repository:                            *)
(*   - skills/human_typer  (distributions.py, typer.py)                    *)
(*   - skills/video_solver (extract_frames.py, read_digits.py,             *)
(*     __init__.py)                                                        *)
(* Python strings are modelled as sequences of one-character strings, so   *)
(* that slicing, indexing and concatenation are computed as the code       *)
(* computes them.  Each engine has its own specification; the variables of *)
(* the engines a specification does not run stay at their idle value.      *)
(***************************************************************************)
EXTENDS Integers, Sequences, FiniteSets, TLC

VARIABLES
    \* detect_repeating_sequence (video_solver/__init__.py)
    digits,             \* the argument
    detected,           \* the value returned
    dpc,                \* "idle" | "call" | "returned"
    \* read_digits_with_validation, the voting part (read_digits.py)
    all_digits,         \* the raw digit string
    sequence_length,    \* the known cycle length L
    validated,          \* the value returned
    vpc,                \* "idle" | "call" | "returned"
    \* deduplicate_frames (extract_frames.py)
    frames,             \* list[FrameAnalysis]
    original_indices,   \* list[int]
    representatives,    \* the list returned
    fpc,                \* "idle" | "call" | "returned"
    \* read_digits_from_frames / read_digits_with_validation (read_digits.py)
    frame_paths,        \* the frames to classify, in order
    entry,              \* the function called: [fn, sequence_length]
    results,            \* the slots of asyncio.gather, one per frame
    replies,            \* the first content block of the reply for each frame
    completion_order,   \* the frames in the order their requests completed
    failed,             \* the frames whose classification raised
    returned_digits,    \* the value returned
    rpc,                \* "idle" | "call" | "gathering" | "returned" | "raised"
    \* simulate_typing (human_typer/typer.py)
    text,               \* the text to type
    cfg,                \* HumanTyperConfig
    typed,              \* the number of characters of text already handled
    prev_char,          \* Optional[str]
    current_time,       \* synthetic clock, ms
    log,                \* list[KeystrokeEvent]
    tpc,                \* "idle" | "typing" | "returned"
    \* solve_attention_video_tool (video_solver/__init__.py) and the survey
    \* server's attention check (mock_survey/server.py)
    expected_sequence,  \* EXPECTED_SEQUENCE of the server
    clip,               \* the frames the decoder yields for the downloaded clip
    decode_outcome,     \* how the ffmpeg run of extract_frames went
    frame_files,        \* extract_frames: the frames found (places in the clip)
    misread,            \* the representative classified wrongly (0: none)
    distinct,           \* extract_distinct_frames: the representative frame paths
    tool_digits,        \* all_digits of the tool
    reported,           \* the ActionResult: [error, sequence]
    spc,                \* "idle" | "call" | "downloaded" | "extracted" | "read"
                        \* | "returned" | "raised"
    \* analyze_frame (video_solver/extract_frames.py)
    pixels,             \* the decoded frame: [width, height, data]
    extraction_config,  \* the ExtractionConfig in force
    analysis,           \* the FrameAnalysis returned
    apc,                \* "idle" | "call" | "returned"
    \* nearby_key (human_typer/distributions.py)
    intended_key,       \* the argument
    picked_key,         \* the value returned
    npc,                \* "idle" | "call" | "returned"
    \* human_type_cdp (human_typer/typer.py)
    live_text,          \* the text to type
    live_typo_rate,     \* typo_rate, in tenths
    char_index,         \* i of the loop over the text
    wrong_char,         \* the wrong key of the typo under way
    typo_count,         \* the typo rolls that came true so far
    dispatched,         \* the events passed to dispatcher.send, in order
    lpc,                \* where the coroutine is suspended, or how it ended
    \* HumanTyperConfig(...) handed to simulate_typing (human_typer/typer.py)
    config_args,        \* the keyword arguments of the constructor
    typer_config,       \* the object constructed
    cpc,                \* "idle" | "call" | "constructed" | "passed"
    \* a second run of simulate_typing with the same text, config and draws
    twin_time,          \* current_time of the second run
    twin_log,           \* log of the second run
    \* wpm_to_log_normal_params (human_typer/distributions.py)
    wpm_in,             \* wpm
    std_dev_in,         \* wpm_std_dev
    params,             \* the pair returned: [mu, sigma]
    ppc,                \* "idle" | "call" | "returned"
    \* extract_distinct_frames (video_solver/extract_frames.py): the gather
    sampled,            \* the decoded frames, in the order of frame_paths
    gathered,           \* the slots of asyncio.gather, one per frame
    analysed_order,     \* the frames in the order their analyses completed
    kept_frames,        \* fully_visible, as given to deduplicate_frames
    kept_indices,       \* original_indices, as given to deduplicate_frames
    distinct_paths,     \* the paths returned
    xpc,                \* "idle" | "call" | "gathering" | "returned" | "raised"
    \* simulate_typing and human_type_cdp (human_typer/typer.py) side by side
    both_text,          \* text, given to both
    both_cfg,           \* config of simulate_typing; its average_wpm and typo_rate
                        \* are the keyword arguments of human_type_cdp
    both_index,         \* characters done by both
    offline_delays,     \* per character, the delay compute_delay returned
    live_delays,        \* per character, the milliseconds slept before it
    offline_keys,       \* per character, the keys simulate_typing logged
    live_keys,          \* per character, the keys human_type_cdp dispatched
    bpc                 \* "idle" | "typing" | "returned"

detVars == <<digits, detected, dpc>>
voteVars == <<all_digits, sequence_length, validated, vpc>>
dedupVars == <<frames, original_indices, representatives, fpc>>
readVars == <<frame_paths, entry, results, replies, completion_order, failed,
              returned_digits, rpc>>
typeVars == <<text, cfg, typed, prev_char, current_time, log, tpc>>
solveVars == <<expected_sequence, clip, decode_outcome, frame_files, misread, distinct,
               tool_digits, reported, spc>>
analyzeVars == <<pixels, extraction_config, analysis, apc>>
nearbyVars == <<intended_key, picked_key, npc>>
liveVars == <<live_text, live_typo_rate, char_index, wrong_char, typo_count, dispatched, lpc>>
configVars == <<config_args, typer_config, cpc>>
twinVars == <<twin_time, twin_log>>
paramVars == <<wpm_in, std_dev_in, params, ppc>>
gatherVars == <<sampled, gathered, analysed_order, kept_frames, kept_indices,
                distinct_paths, xpc>>
bothVars == <<both_text, both_cfg, both_index, offline_delays, live_delays,
              offline_keys, live_keys, bpc>>
vars == <<detVars, voteVars, dedupVars, readVars, typeVars, solveVars, analyzeVars,
    nearbyVars, liveVars, configVars, twinVars, paramVars, gatherVars, bothVars>>

\* what an engine leaves alone: the variables of the other engines
notDetVars == <<voteVars, dedupVars, readVars, typeVars, solveVars, analyzeVars,
    nearbyVars, liveVars, configVars, twinVars, paramVars, gatherVars, bothVars>>
notVoteVars == <<detVars, dedupVars, readVars, typeVars, solveVars, analyzeVars,
    nearbyVars, liveVars, configVars, twinVars, paramVars, gatherVars, bothVars>>
notDedupVars == <<detVars, voteVars, readVars, typeVars, solveVars, analyzeVars,
    nearbyVars, liveVars, configVars, twinVars, paramVars, gatherVars, bothVars>>
notReadVars == <<detVars, voteVars, dedupVars, typeVars, solveVars, analyzeVars,
    nearbyVars, liveVars, configVars, twinVars, paramVars, gatherVars, bothVars>>
notTypeVars == <<detVars, voteVars, dedupVars, readVars, solveVars, analyzeVars,
    nearbyVars, liveVars, configVars, twinVars, paramVars, gatherVars, bothVars>>
notSolveVars == <<detVars, voteVars, dedupVars, readVars, typeVars, analyzeVars,
    nearbyVars, liveVars, configVars, twinVars, paramVars, gatherVars, bothVars>>
notAnalyzeVars == <<detVars, voteVars, dedupVars, readVars, typeVars, solveVars,
    nearbyVars, liveVars, configVars, twinVars, paramVars, gatherVars, bothVars>>
notNearbyVars == <<detVars, voteVars, dedupVars, readVars, typeVars, solveVars,
    analyzeVars, liveVars, configVars, twinVars, paramVars, gatherVars, bothVars>>
notLiveVars == <<detVars, voteVars, dedupVars, readVars, typeVars, solveVars,
    analyzeVars, nearbyVars, configVars, twinVars, paramVars, gatherVars, bothVars>>
notConfigVars == <<detVars, voteVars, dedupVars, readVars, typeVars, solveVars,
    analyzeVars, nearbyVars, liveVars, twinVars, paramVars, gatherVars, bothVars>>
notTwinVars == <<detVars, voteVars, dedupVars, readVars, typeVars, solveVars,
    analyzeVars, nearbyVars, liveVars, configVars, paramVars, gatherVars, bothVars>>
notParamVars == <<detVars, voteVars, dedupVars, readVars, typeVars, solveVars,
    analyzeVars, nearbyVars, liveVars, configVars, twinVars, gatherVars, bothVars>>
notGatherVars == <<detVars, voteVars, dedupVars, readVars, typeVars, solveVars,
    analyzeVars, nearbyVars, liveVars, configVars, twinVars, paramVars, bothVars>>
notBothVars == <<detVars, voteVars, dedupVars, readVars, typeVars, solveVars,
    analyzeVars, nearbyVars, liveVars, configVars, twinVars, paramVars, gatherVars>>

(***************************************************************************)
(* Python helpers                                                          *)
(***************************************************************************)
Min(S) == CHOOSE x \in S : \A y \in S : x <= y
Max(S) == CHOOSE x \in S : \A y \in S : x >= y
Abs(x) == IF x < 0 THEN -x ELSE x

\* s[i:j] for 0 <= i, 0 <= j (0-based, end exclusive, clipped to the string)
Slice(s, i, j) ==
    LET hi == IF j < Len(s) THEN j ELSE Len(s)
    IN  IF i >= hi THEN <<>> ELSE SubSeq(s, i + 1, hi)

\* range(start, stop, step) for step > 0, as a set
Range(start, stop, step) ==
    {i \in start..(stop - 1) : (i - start) % step = 0}

\* All strings over an alphabet, of length at most n
StringsUpTo(alphabet, n) == UNION {[1..k -> alphabet] : k \in 0..n}

RECURSIVE Repeat(_, _)
Repeat(u, k) == IF k = 0 THEN <<>> ELSE u \o Repeat(u, k - 1)

(***************************************************************************)
(* Bounds                                                                  *)
(***************************************************************************)
MaxDigits == 14       \* longest digit string given to the detector
MaxVoteLen == 7       \* longest raw digit string given to the vote
MaxCycle == 3         \* largest cycle length L given to the vote
MaxFrames == 3        \* most fully-visible frames given to deduplication
MaxIndex == 4         \* largest original frame index
MaxPaths == 3         \* most frames given to read_digits_from_frames
MaxReadCycle == 2     \* largest cycle length given with those frames
MaxText == 2          \* longest text given to simulate_typing
MaxLoops == 2         \* most repetitions of the hidden sequence in a clip
MaxDwell == 2         \* most sampled frames that show one digit fully
MaxPixels == 4        \* most pixels of a frame given pixel by pixel to analyze_frame
MaxHeight == 10       \* tallest frame given row by row to analyze_frame
MaxLiveText == 2      \* longest text given to human_type_cdp
MaxWpm == 80          \* largest wpm given to wpm_to_log_normal_params
MaxStdDev == 15       \* largest wpm_std_dev given to wpm_to_log_normal_params
MaxSampled == 3       \* most decoded frames analysed concurrently

DigitAlphabet == {"1", "2"}
VoteAlphabet == {"3", "1", "x"}

(***************************************************************************)
(* detect_repeating_sequence                                               *)
(***************************************************************************)
\* the inner loop: every chunk of full length equals the candidate
CandidateMatches(s, length) ==
    LET candidate == Slice(s, 0, length)
    IN  \A i \in Range(length, Len(s), length) :
            LET chunk == Slice(s, i, i + length)
            IN  ~(Len(chunk) = length /\ chunk # candidate)

\* a variant that returns the empty string when no candidate is accepted
detect_or_nothing(s) ==
    LET accepted == {length \in 1..(Len(s) \div 2) : CandidateMatches(s, length)}
    IN  IF accepted = {} THEN <<>> ELSE Slice(s, 0, Min(accepted))

detect_repeating_sequence(s) ==
    LET accepted == {length \in 1..(Len(s) \div 2) : CandidateMatches(s, length)}
    IN  IF accepted = {} THEN s ELSE Slice(s, 0, Min(accepted))

DetectInputs ==
    StringsUpTo(DigitAlphabet, MaxDigits)
        \cup {Repeat(<<"3", "1", "6", "9">>, 4), <<"a", "b", "c">>}

DetectIdle == digits = <<>> /\ detected = <<>> /\ dpc = "idle"

DetectInit == digits \in DetectInputs /\ detected = <<>> /\ dpc = "call"

Detect ==
    /\ dpc = "call"
    /\ detected' = detect_repeating_sequence(digits)
    /\ dpc' = "returned"
    /\ UNCHANGED <<digits, notDetVars>>

(***************************************************************************)
(* read_digits_with_validation: split into loops, majority vote            *)
(***************************************************************************)
\* loops.append(all_digits[i : i + sequence_length]) for i in range(0, n, L)
SplitLoops(s, L) ==
    [k \in 1..((Len(s) + L - 1) \div L) |-> Slice(s, (k - 1) * L, k * L)]

\* votes[digit] = votes.get(digit, 0) + 1 ; a dict keeps insertion order, so
\* it is a sequence of <<digit, count>> pairs
AddVote(votes, digit) ==
    IF \E j \in 1..Len(votes) : votes[j][1] = digit
    THEN [j \in 1..Len(votes) |->
            IF votes[j][1] = digit THEN <<digit, votes[j][2] + 1>> ELSE votes[j]]
    ELSE Append(votes, <<digit, 1>>)

RECURSIVE TallyVotes(_, _, _, _)
TallyVotes(loops, pos, k, votes) ==
    IF k > Len(loops) THEN votes
    ELSE IF pos < Len(loops[k])
         THEN TallyVotes(loops, pos, k + 1, AddVote(votes, loops[k][pos + 1]))
         ELSE TallyVotes(loops, pos, k + 1, votes)

\* mutant: a later digit with an equal count replaces the earlier one
RECURSIVE BestDigitLastWins(_, _, _, _)
BestDigitLastWins(votes, j, best_digit, best_count) ==
    IF j > Len(votes) THEN best_digit
    ELSE IF votes[j][2] >= best_count
         THEN BestDigitLastWins(votes, j + 1, <<votes[j][1]>>, votes[j][2])
         ELSE BestDigitLastWins(votes, j + 1, best_digit, best_count)

\* for digit, count in votes.items(): if count > best_count: ...
RECURSIVE BestDigit(_, _, _, _)
BestDigit(votes, j, best_digit, best_count) ==
    IF j > Len(votes) THEN best_digit
    ELSE IF votes[j][2] > best_count
         THEN BestDigit(votes, j + 1, <<votes[j][1]>>, votes[j][2])
         ELSE BestDigit(votes, j + 1, best_digit, best_count)

\* mutant: a digit wins only with at least two votes (best_count starts at 1)
RECURSIVE VoteResultNeedsTwo(_, _, _)
VoteResultNeedsTwo(loops, pos, L) ==
    IF pos >= L THEN <<>>
    ELSE BestDigit(TallyVotes(loops, pos, 1, <<>>), 1, <<>>, 1)
            \o VoteResultNeedsTwo(loops, pos + 1, L)

RECURSIVE VoteResult(_, _, _)
VoteResult(loops, pos, L) ==
    IF pos >= L THEN <<>>
    ELSE BestDigit(TallyVotes(loops, pos, 1, <<>>), 1, <<>>, 0)
            \o VoteResult(loops, pos + 1, L)

\* the part of read_digits_with_validation after the raw string is read
cross_validate(s, L) ==
    IF Len(s) <= L THEN s ELSE VoteResult(SplitLoops(s, L), 0, L)

VoteIdle ==
    all_digits = <<>> /\ sequence_length = 0 /\ validated = <<>> /\ vpc = "idle"

VoteInit ==
    /\ all_digits \in StringsUpTo(VoteAlphabet, MaxVoteLen)
                        \cup {<<"3","1","6","9","3","1","8","9","3","1","6","9">>}
    /\ sequence_length \in 1..MaxCycle \cup {4}
    /\ validated = <<>>
    /\ vpc = "call"

Validate ==
    /\ vpc = "call"
    /\ validated' = cross_validate(all_digits, sequence_length)
    /\ vpc' = "returned"
    /\ UNCHANGED <<all_digits, sequence_length, notVoteVars>>

(***************************************************************************)
(* deduplicate_frames                                                      *)
(* A FrameAnalysis is [path, top_margin, bottom_margin]; the margins are   *)
(* row counts over the common frame height (y_min and height-1-y_max).     *)
(***************************************************************************)
CenterScore(frame) == Abs(frame.top_margin - frame.bottom_margin)

\* mutant: a gap of 2 still joins the group (<= 2 instead of <= 1)
RECURSIVE BuildGroupsGapTwo(_, _, _, _)
BuildGroupsGapTwo(fs, idx, i, groups) ==
    IF i > Len(fs) THEN groups
    ELSE IF idx[i] - idx[i - 1] <= 2
         THEN BuildGroupsGapTwo(fs, idx, i + 1,
                [groups EXCEPT ![Len(groups)] = Append(@, fs[i])])
         ELSE BuildGroupsGapTwo(fs, idx, i + 1, Append(groups, <<fs[i]>>))

RECURSIVE BuildGroups(_, _, _, _)
BuildGroups(fs, idx, i, groups) ==
    IF i > Len(fs) THEN groups
    ELSE IF idx[i] - idx[i - 1] <= 1
         THEN BuildGroups(fs, idx, i + 1,
                [groups EXCEPT ![Len(groups)] = Append(@, fs[i])])
         ELSE BuildGroups(fs, idx, i + 1, Append(groups, <<fs[i]>>))

\* mutant: a later frame with an equal score replaces the earlier one
RECURSIVE BestOfGroupLastWins(_, _, _)
BestOfGroupLastWins(group, j, best) ==
    IF j > Len(group) THEN best
    ELSE IF CenterScore(group[j]) <= CenterScore(best)
         THEN BestOfGroupLastWins(group, j + 1, group[j])
         ELSE BestOfGroupLastWins(group, j + 1, best)

RECURSIVE BestOfGroup(_, _, _)
BestOfGroup(group, j, best) ==
    IF j > Len(group) THEN best
    ELSE IF CenterScore(group[j]) < CenterScore(best)
         THEN BestOfGroup(group, j + 1, group[j])
         ELSE BestOfGroup(group, j + 1, best)

deduplicate_frames(fs, idx) ==
    IF fs = <<>> THEN <<>>
    ELSE LET groups == BuildGroups(fs, idx, 2, <<<<fs[1]>>>>)
         IN  [g \in 1..Len(groups) |-> BestOfGroup(groups[g], 2, groups[g][1])]

TopMargins == {1, 2}
BottomMargins == {1, 2, 3}

\* strictly increasing index lists, as extract_distinct_frames builds them
IndexLists(n) ==
    {idx \in [1..n -> 0..MaxIndex] : \A i \in 1..n : \A j \in 1..n : i < j => idx[i] < idx[j]}

FrameLists(n) ==
    {[i \in 1..n |-> [path |-> i, top_margin |-> m[i][1], bottom_margin |-> m[i][2]]] :
        m \in [1..n -> TopMargins \X BottomMargins]}

DedupIdle ==
    frames = <<>> /\ original_indices = <<>> /\ representatives = <<>> /\ fpc = "idle"

DedupInit ==
    /\ \E n \in 0..MaxFrames :
          frames \in FrameLists(n) /\ original_indices \in IndexLists(n)
    /\ representatives = <<>>
    /\ fpc = "call"

Deduplicate ==
    /\ fpc = "call"
    /\ representatives' = deduplicate_frames(frames, original_indices)
    /\ fpc' = "returned"
    /\ UNCHANGED <<frames, original_indices, notDedupVars>>

(***************************************************************************)
(* read_digit_from_frame, read_digits_from_frames                          *)
(***************************************************************************)
Whitespace == {" ", "\t", "\n"}
DecimalDigits == {"0", "1", "2", "3", "4", "5", "6", "7", "8", "9"}

RECURSIVE LStrip(_)
LStrip(s) == IF s # <<>> /\ Head(s) \in Whitespace THEN LStrip(Tail(s)) ELSE s
RECURSIVE RStrip(_)
RStrip(s) ==
    IF s # <<>> /\ s[Len(s)] \in Whitespace
    THEN RStrip(SubSeq(s, 1, Len(s) - 1)) ELSE s
\* str.strip()
Strip(s) == RStrip(LStrip(s))

\* a variant that takes the last digit of the reply
read_last_digit(block) ==
    LET reply == IF block.type = "text" THEN Strip(block.text) ELSE <<>>
        hits == {i \in 1..Len(reply) : reply[i] \in DecimalDigits}
    IN  IF hits = {} THEN reply ELSE <<reply[Max(hits)]>>

\* the part of read_digit_from_frame after the reply has arrived:
\*   text = block.text.strip() if block.type == "text" else ""
\*   match = re.search(r"\d", text); return match.group(0) if match else text
read_digit_from_frame(block) ==
    LET reply == IF block.type = "text" THEN Strip(block.text) ELSE <<>>
        hits == {i \in 1..Len(reply) : reply[i] \in DecimalDigits}
    IN  IF hits = {} THEN reply ELSE <<reply[Min(hits)]>>

\* the first content block of a reply of the classification capability
ReplyBlocks ==
    {[type |-> "text", text |-> t] :
        t \in {<<"3">>, <<" ", "1", "\n">>, <<"n", "o">>, <<"i", "s", " ", "7", "8">>,
               <<" ">>}}
    \cup {[type |-> "tool_use", text |-> <<>>]}

NotDone == "pending"

\* mutant: the results are joined in completion order
RECURSIVE JoinMixed(_, _, _)
JoinMixed(res, order, k) ==
    IF k > Len(order) THEN <<>> ELSE res[order[k]] \o JoinMixed(res, order, k + 1)

\* "".join(results): gather returns the results in the order of its arguments
RECURSIVE JoinOrdered(_, _, _)
JoinOrdered(res, order, k) ==
    IF k > Len(res) THEN <<>> ELSE res[k] \o JoinOrdered(res, order, k + 1)

ReadIdle ==
    /\ frame_paths = <<>> /\ entry = [fn |-> "none", sequence_length |-> 0]
    /\ results = <<>> /\ replies = <<>> /\ completion_order = <<>> /\ failed = {}
    /\ returned_digits = <<>> /\ rpc = "idle"

Entries ==
    {[fn |-> "read_digits_from_frames", sequence_length |-> 0]}
    \cup {[fn |-> "read_digits_with_validation", sequence_length |-> L] :
            L \in 1..MaxReadCycle}

ReadInit ==
    /\ \E n \in 0..MaxPaths : frame_paths = [i \in 1..n |-> i]
    /\ entry \in Entries
    /\ results = [i \in 1..Len(frame_paths) |-> NotDone]
    /\ replies = [i \in 1..Len(frame_paths) |-> NotDone]
    /\ completion_order = <<>>
    /\ failed = {}
    /\ returned_digits = <<>>
    /\ rpc = "call"

\* what the caller of read_digits_from_frames does with the raw string
Finish(raw) ==
    IF entry.fn = "read_digits_with_validation"
    THEN cross_validate(raw, entry.sequence_length)
    ELSE raw

\* if not frame_paths: return "" ; else the requests are issued together
StartGather ==
    /\ rpc = "call"
    /\ IF frame_paths = <<>>
       THEN returned_digits' = Finish(<<>>) /\ rpc' = "returned"
       ELSE rpc' = "gathering" /\ UNCHANGED returned_digits
    /\ UNCHANGED <<frame_paths, entry, results, replies, completion_order, failed,
                   notReadVars>>

\* the request of frame i completes with a reply, in any order
ClassifyReturns(i) ==
    /\ rpc = "gathering"
    /\ results[i] = NotDone
    /\ \E block \in ReplyBlocks :
          /\ replies' = [replies EXCEPT ![i] = block]
          /\ results' = [results EXCEPT ![i] = read_digit_from_frame(block)]
    /\ completion_order' = Append(completion_order, i)
    /\ UNCHANGED <<frame_paths, entry, failed, returned_digits, rpc, notReadVars>>

\* the request of frame i raises (an API error, a timeout): nothing catches it,
\* and gather hands the first exception to the awaiting caller
ClassifyRaises(i) ==
    /\ rpc = "gathering"
    /\ results[i] = NotDone
    /\ failed' = failed \cup {i}
    /\ rpc' = "raised"
    /\ UNCHANGED <<frame_paths, entry, results, replies, completion_order,
                   returned_digits, notReadVars>>

\* every request has completed: join, then the caller's own work
GatherDone ==
    /\ rpc = "gathering"
    /\ \A i \in 1..Len(results) : results[i] # NotDone
    /\ returned_digits' = Finish(JoinOrdered(results, completion_order, 1))
    /\ rpc' = "returned"
    /\ UNCHANGED <<frame_paths, entry, results, replies, completion_order, failed,
                   notReadVars>>

(***************************************************************************)
(* human_typer: nearby_key (distributions.py)                              *)
(***************************************************************************)
LowerLetters ==
    <<"a", "b", "c", "d", "e", "f", "g", "h", "i", "j", "k", "l", "m",
      "n", "o", "p", "q", "r", "s", "t", "u", "v", "w", "x", "y", "z">>
UpperLetters ==
    <<"A", "B", "C", "D", "E", "F", "G", "H", "I", "J", "K", "L", "M",
      "N", "O", "P", "Q", "R", "S", "T", "U", "V", "W", "X", "Y", "Z">>

\* str.lower() and str.upper() of one character
Lower(c) ==
    IF \E i \in 1..26 : UpperLetters[i] = c
    THEN LowerLetters[CHOOSE i \in 1..26 : UpperLetters[i] = c] ELSE c
Upper(c) ==
    IF \E i \in 1..26 : LowerLetters[i] = c
    THEN UpperLetters[CHOOSE i \in 1..26 : LowerLetters[i] = c] ELSE c

QWERTY_NEIGHBORS ==
    [k \in {"1", "2", "3", "4", "5", "6", "7", "8", "9", "0",
            "q", "w", "e", "r", "t", "y", "u", "i", "o", "p",
            "a", "s", "d", "f", "g", "h", "j", "k", "l", ";",
            "z", "x", "c", "v", "b", "n", "m", ",", ".", "/", " "} |->
        CASE k = "1" -> <<"2", "q">>
          [] k = "2" -> <<"1", "3", "q", "w">>
          [] k = "3" -> <<"2", "4", "w", "e">>
          [] k = "4" -> <<"3", "5", "e", "r">>
          [] k = "5" -> <<"4", "6", "r", "t">>
          [] k = "6" -> <<"5", "7", "t", "y">>
          [] k = "7" -> <<"6", "8", "y", "u">>
          [] k = "8" -> <<"7", "9", "u", "i">>
          [] k = "9" -> <<"8", "0", "i", "o">>
          [] k = "0" -> <<"9", "-", "o", "p">>
          [] k = "q" -> <<"1", "2", "w", "a">>
          [] k = "w" -> <<"2", "3", "q", "e", "a", "s">>
          [] k = "e" -> <<"3", "4", "w", "r", "s", "d">>
          [] k = "r" -> <<"4", "5", "e", "t", "d", "f">>
          [] k = "t" -> <<"5", "6", "r", "y", "f", "g">>
          [] k = "y" -> <<"6", "7", "t", "u", "g", "h">>
          [] k = "u" -> <<"7", "8", "y", "i", "h", "j">>
          [] k = "i" -> <<"8", "9", "u", "o", "j", "k">>
          [] k = "o" -> <<"9", "0", "i", "p", "k", "l">>
          [] k = "p" -> <<"0", "-", "o", "[", "l", ";">>
          [] k = "a" -> <<"q", "w", "s", "z">>
          [] k = "s" -> <<"w", "e", "a", "d", "z", "x">>
          [] k = "d" -> <<"e", "r", "s", "f", "x", "c">>
          [] k = "f" -> <<"r", "t", "d", "g", "c", "v">>
          [] k = "g" -> <<"t", "y", "f", "h", "v", "b">>
          [] k = "h" -> <<"y", "u", "g", "j", "b", "n">>
          [] k = "j" -> <<"u", "i", "h", "k", "n", "m">>
          [] k = "k" -> <<"i", "o", "j", "l", "m", ",">>
          [] k = "l" -> <<"o", "p", "k", ";", ",", ".">>
          [] k = ";" -> <<"p", "[", "l", "'", ".", "/">>
          [] k = "z" -> <<"a", "s", "x">>
          [] k = "x" -> <<"s", "d", "z", "c">>
          [] k = "c" -> <<"d", "f", "x", "v">>
          [] k = "v" -> <<"f", "g", "c", "b">>
          [] k = "b" -> <<"g", "h", "v", "n">>
          [] k = "n" -> <<"h", "j", "b", "m">>
          [] k = "m" -> <<"j", "k", "n", ",">>
          [] k = "," -> <<"k", "l", "m", ".">>
          [] k = "." -> <<"l", ";", ",", "/">>
          [] k = "/" -> <<";", "'", ".">>
          [] k = " " -> <<>>]

\* QWERTY_NEIGHBORS.get(lower): the list, or None (the empty list here; the
\* code treats both alike)
NeighborsOf(key) ==
    IF Lower(key) \in DOMAIN QWERTY_NEIGHBORS THEN QWERTY_NEIGHBORS[Lower(key)] ELSE <<>>

\* the list random.choice draws from in nearby_key(key)
ChoiceList(key) ==
    IF Len(NeighborsOf(key)) > 0 THEN NeighborsOf(key) ELSE LowerLetters

\* a variant that never upper-cases the key picked
nearby_key_as_listed(key, pick) == ChoiceList(key)[pick]

\* nearby_key(key), pick being the place random.choice draws in ChoiceList(key)
nearby_key(key, pick) ==
    LET picked == ChoiceList(key)[pick]
    IN  IF key # Lower(key) THEN Upper(picked) ELSE picked

(***************************************************************************)
(* human_typer: compute_delay, simulate_typing (typer.py)                  *)
(* Times are whole milliseconds.  A draw of random.random() is a number of *)
(* tenths (0 is 0.0, 9 is 0.9); the rates of the configuration are tenths  *)
(* too (10 is 1.0).  A draw of sample_iki is a positive interval.          *)
(***************************************************************************)
SENTENCE_ENDINGS == {".", "!", "?"}
WORD_BOUNDARIES == {" ", "\t", "\n"}
NoChar == "None"
MinDelay == 10

UnitDraws == {0, 9}
IKIDraws == {1, 200}
StartTimes == {0, 1000}
\* the places random.choice may draw in a list of n: the first and the last
ChoiceDraws(n) == {1, n}

\* random.random() < rate
Roll(r, rate) == r < rate

\* sample_iki(wpm, wpm_std_dev): exp(mu + sigma * z).  With wpm_std_dev = 0,
\* sigma is 0 and the value is exp(mu) = 60000 / (wpm * 5); otherwise it is
\* the positive interval drawn
sample_iki(wpm, wpm_std_dev, drawn) ==
    IF wpm_std_dev = 0 THEN 60000 \div (wpm * 5) ELSE drawn

\* mutant: the minimum of 10 ms is not applied
compute_delay_unclamped(char, prev, config, d) ==
    LET base == sample_iki(config.average_wpm, config.wpm_std_dev, d.iki)
        boundary ==
            IF prev # NoChar /\ prev \in SENTENCE_ENDINGS /\ char \in WORD_BOUNDARIES
            THEN (config.sentence_boundary_pause_ms * (5 + d.pause)) \div 10
            ELSE IF char \in WORD_BOUNDARIES
                 THEN (config.word_boundary_pause_ms * (30 + 7 * d.pause)) \div 100
                 ELSE 0
        long == IF Roll(d.long, config.long_pause_chance)
                THEN (d.amount * config.long_pause_max_ms) \div 10 ELSE 0
    IN  base + boundary + long

\* compute_delay(char, prev_char, config), d being the draws it makes
compute_delay(char, prev, config, d) ==
    LET base == sample_iki(config.average_wpm, config.wpm_std_dev, d.iki)
        boundary ==
            IF prev # NoChar /\ prev \in SENTENCE_ENDINGS /\ char \in WORD_BOUNDARIES
            THEN (config.sentence_boundary_pause_ms * (5 + d.pause)) \div 10
            ELSE IF char \in WORD_BOUNDARIES
                 THEN (config.word_boundary_pause_ms * (30 + 7 * d.pause)) \div 100
                 ELSE 0
        long == IF Roll(d.long, config.long_pause_chance)
                THEN (d.amount * config.long_pause_max_ms) \div 10 ELSE 0
        delay == base + boundary + long
    IN  IF delay > MinDelay THEN delay ELSE MinDelay

KeystrokeEvent(key, time, is_typo, is_correction) ==
    [key |-> key, time |-> time, is_typo |-> is_typo, is_correction |-> is_correction]

\* mutant: the Backspace is logged without its is_correction mark
CorrectionEventsUnmarked(char, t, d) ==
    LET t_back == t + 200 + d.back * 30
        t_again == t_back + 100 + d.again * 10
    IN  <<KeystrokeEvent("Backspace", t_back, FALSE, FALSE),
          KeystrokeEvent(char, t_again, FALSE, FALSE)>>

\* a variant that logs the Backspace and does not type the character again
CorrectionEventsNoRetype(char, t, d) ==
    <<KeystrokeEvent("Backspace", t + 200 + d.back * 30, FALSE, TRUE)>>

\* the events logged when the correction fires, the typo being logged at t
CorrectionEvents(char, t, d) ==
    LET t_back == t + 200 + d.back * 30
        t_again == t_back + 100 + d.again * 10
    IN  <<KeystrokeEvent("Backspace", t_back, FALSE, TRUE),
          KeystrokeEvent(char, t_again, FALSE, FALSE)>>

\* a variant that types the character after an uncorrected typo too
CharEventsTypoThenChar(char, config, t, d) ==
    IF Roll(d.typo, config.typo_rate)
    THEN <<KeystrokeEvent(nearby_key(char, d.pick), t, TRUE, FALSE)>>
            \o (IF Roll(d.correct, config.typo_correction_rate)
                THEN CorrectionEvents(char, t, d)
                ELSE <<KeystrokeEvent(char, t, FALSE, FALSE)>>)
    ELSE <<KeystrokeEvent(char, t, FALSE, FALSE)>>

\* the events one iteration of the loop appends, the clock being t after the delay
CharEvents(char, config, t, d) ==
    IF Roll(d.typo, config.typo_rate)
    THEN <<KeystrokeEvent(nearby_key(char, d.pick), t, TRUE, FALSE)>>
            \o (IF Roll(d.correct, config.typo_correction_rate)
                THEN CorrectionEvents(char, t, d) ELSE <<>>)
    ELSE <<KeystrokeEvent(char, t, FALSE, FALSE)>>

\* the draws of one iteration; a draw the iteration does not make is 0
DelayDraws(char, prev, config) ==
    {d \in [iki : IKIDraws, pause : UnitDraws, long : UnitDraws, amount : UnitDraws] :
        /\ config.wpm_std_dev = 0 => d.iki = Min(IKIDraws)
        /\ (char \notin WORD_BOUNDARIES) => d.pause = 0
        /\ ~Roll(d.long, config.long_pause_chance) => d.amount = 0}

TypoDraws(char, config) ==
    {d \in [typo : UnitDraws, pick : ChoiceDraws(Len(ChoiceList(char))),
            correct : UnitDraws, back : UnitDraws, again : UnitDraws] :
        /\ ~Roll(d.typo, config.typo_rate) =>
              d.pick = 1 /\ d.correct = 0 /\ d.back = 0 /\ d.again = 0
        /\ ~Roll(d.correct, config.typo_correction_rate) => d.back = 0 /\ d.again = 0}

HumanTyperConfig(wpm, sd, tr, cr, word, sentence, chance, long) ==
    [average_wpm |-> wpm, wpm_std_dev |-> sd, typo_rate |-> tr,
     typo_correction_rate |-> cr, word_boundary_pause_ms |-> word,
     sentence_boundary_pause_ms |-> sentence, long_pause_chance |-> chance,
     long_pause_max_ms |-> long]

\* the configurations tried: no validation rejects any of them
Configs ==
    {HumanTyperConfig(60, 15, 0, 5, 300, 800, 5, 2000),      \* pauses, no typo
     HumanTyperConfig(60, 15, 0, 10, -300, -800, 10, -2000), \* negative pauses
     HumanTyperConfig(60, 0, 5, 5, 0, 0, 0, 2000),           \* typos, some corrected
     HumanTyperConfig(60, 0, 5, 10, 300, 800, 0, 2000),      \* typos, all corrected
     HumanTyperConfig(60, 0, 10, 10, 300, 800, 0, 2000),     \* only typos, all corrected
     HumanTyperConfig(60, 0, 10, 0, 300, 800, 0, 2000),      \* only typos, none corrected
     HumanTyperConfig(60, 15, 5, 10, 0, 0, 10, -2000)}       \* typos and short delays

\* the texts tried: the prefixes of two texts
BaseTexts == {<<".", " ", "B">>, <<" ", "a", ".">>}
Texts == {Slice(t, 0, n) : t \in BaseTexts, n \in 0..MaxText}

TypeIdle ==
    /\ text = <<>> /\ cfg = [typo_correction_rate |-> 0] /\ typed = 0 /\ prev_char = NoChar
    /\ current_time = 0 /\ log = <<>> /\ tpc = "idle"

\* simulate_typing(text, config) up to the loop
TypeInit ==
    /\ text \in Texts
    /\ cfg \in Configs
    /\ typed = 0
    /\ prev_char = NoChar
    /\ current_time \in StartTimes
    /\ log = <<>>
    /\ tpc = "typing"

\* one iteration of `for char in text`
TypeChar ==
    /\ tpc = "typing"
    /\ typed < Len(text)
    /\ LET char == text[typed + 1]
       IN  \E dd \in DelayDraws(char, prev_char, cfg) :
           \E td \in TypoDraws(char, cfg) :
              LET t == current_time + compute_delay(char, prev_char, cfg, dd)
                  events == CharEvents(char, cfg, t, td)
              IN  /\ current_time' = events[Len(events)].time
                  /\ log' = log \o events
                  /\ prev_char' = char
    /\ typed' = typed + 1
    /\ UNCHANGED <<text, cfg, tpc, notTypeVars>>

\* the loop is over: return log
TypeReturn ==
    /\ tpc = "typing"
    /\ typed = Len(text)
    /\ tpc' = "returned"
    /\ UNCHANGED <<text, cfg, typed, prev_char, current_time, log, notTypeVars>>

(***************************************************************************)
(* analyze_frame (extract_frames.py)                                       *)
(* A decoded frame is [width, height, data], data being the grayscale      *)
(* buffer row by row.  The thresholds that are fractions are held in       *)
(* thousandths and compared by cross-multiplication, which decides the     *)
(* code's float comparisons exactly for these sizes.  A margin y/height is *)
(* held as its row count y: every frame of a clip has the same height.     *)
(* content_hash, a quotient, is held as <<sum, count>>.                    *)
(***************************************************************************)
ExtractionConfig ==
    [fps |-> 5, blank_threshold |-> 999, bright_luminance |-> 250,
     edge_margin_threshold |-> 100, content_luminance_threshold |-> 200,
     content_row_threshold |-> 5]

\* a variant that reads the rows from the bottom up
PixelFromBottom(f, y, x) == f.data[(f.height - 1 - y) * f.width + x + 1]

\* data[y * width + x]
Pixel(f, y, x) == f.data[y * f.width + x + 1]

RECURSIVE Darkness(_, _, _)
\* the sum of 255 - pixel over the pixels of data[1..i] darker than limit
Darkness(data, i, limit) ==
    IF i = 0 THEN 0
    ELSE Darkness(data, i - 1, limit) + (IF data[i] < limit THEN 255 - data[i] ELSE 0)

analyze_frame(path, f, c) ==
    LET total_pixels == f.width * f.height
        bright_pixels ==
            Cardinality({i \in 1..Len(f.data) : f.data[i] >= c.bright_luminance})
        is_blank == bright_pixels * 1000 >= c.blank_threshold * total_pixels
        DarkInRow(y) ==
            Cardinality({x \in 0..(f.width - 1) :
                            Pixel(f, y, x) < c.content_luminance_threshold})
        content_rows ==
            {y \in 0..(f.height - 1) :
                DarkInRow(y) * 1000 >= c.content_row_threshold * f.width}
        y_min == IF content_rows = {} THEN f.height ELSE Min(content_rows)
        y_max == IF content_rows = {} THEN 0 ELSE Max(content_rows)
        content == IF y_min <= y_max
                   THEN SubSeq(f.data, y_min * f.width + 1, (y_max + 1) * f.width)
                   ELSE <<>>
        content_pixel_count ==
            Cardinality({i \in 1..Len(content) :
                            content[i] < c.content_luminance_threshold})
        top_margin == y_min
        bottom_margin == f.height - 1 - y_max
    IN  IF is_blank
        THEN [path |-> path, is_blank |-> TRUE, top_margin |-> f.height,
              bottom_margin |-> f.height, is_fully_visible |-> FALSE,
              content_hash |-> <<0, 1>>]
        ELSE [path |-> path, is_blank |-> FALSE, top_margin |-> top_margin,
              bottom_margin |-> bottom_margin,
              is_fully_visible |->
                  /\ top_margin * 1000 >= c.edge_margin_threshold * f.height
                  /\ bottom_margin * 1000 >= c.edge_margin_threshold * f.height,
              content_hash |->
                  IF content_pixel_count > 0
                  THEN <<Darkness(content, Len(content),
                                  c.content_luminance_threshold), content_pixel_count>>
                  ELSE <<0, 1>>]

(***************************************************************************)
(* extract_distinct_frames (extract_frames.py)                             *)
(***************************************************************************)
\* the positions (1-based here, enumerate's i + 1) of the analyses kept
KeptPositions(analyses) ==
    {i \in 1..Len(analyses) : ~analyses[i].is_blank /\ analyses[i].is_fully_visible}

RECURSIVE SortedSeq(_)
\* the elements of a set of numbers in ascending order
SortedSeq(S) == IF S = {} THEN <<>> ELSE <<Min(S)>> \o SortedSeq(S \ {Min(S)})

\* extract_distinct_frames over the decoded frames: the paths of the
\* representatives (a path is the frame's place in the clip)
extract_distinct_frames(decoded, c) ==
    LET analyses == [i \in 1..Len(decoded) |-> analyze_frame(i, decoded[i], c)]
        kept == SortedSeq(KeptPositions(analyses))
        fully_visible == [k \in 1..Len(kept) |-> analyses[kept[k]]]
        indices == [k \in 1..Len(kept) |-> kept[k] - 1]
        reps == deduplicate_frames(fully_visible, indices)
    IN  [k \in 1..Len(reps) |-> reps[k].path]

(***************************************************************************)
(* The clip of the attention check.  The generator of the clip is not part *)
(* of the sources; the clip is built as the specification describes it: a  *)
(* scrolling animation that dwells on each digit over adjacent sampled     *)
(* frames, the digit entering and leaving through the edges.               *)
(***************************************************************************)
ClipHeight == 10

\* a frame one pixel wide with dark rows first..last, showing digit
GlyphFrame(digit, first, last) ==
    [digit |-> digit, width |-> 1, height |-> ClipHeight,
     data |-> [i \in 1..ClipHeight |-> IF i - 1 >= first /\ i - 1 <= last THEN 0 ELSE 255]]

BlankFrame == GlyphFrame("", 1, 0)

\* the frames of one digit: entering at the bottom edge, dwelling, leaving at
\* the top edge, then a blank frame
DigitFrames(digit, dwell) ==
    <<GlyphFrame(digit, 7, 9)>>
        \o [k \in 1..dwell |-> GlyphFrame(digit, 4 - k, 7 - k)]
        \o <<GlyphFrame(digit, 0, 2), BlankFrame>>

RECURSIVE ClipOf(_, _)
ClipOf(shown, dwell) ==
    IF shown = <<>> THEN <<>>
    ELSE DigitFrames(Head(shown), dwell) \o ClipOf(Tail(shown), dwell)

(***************************************************************************)
(* The survey server (mock_survey/server.py)                               *)
(***************************************************************************)
ServerDigits == {"0", "1", "2"}

\* _generate_random_sequence(length = 4): no leading zero
GeneratedSequences ==
    {q \in [1..4 -> ServerDigits] : q[1] # "0"}

\* handle_opinion.validate: the answer is accepted
Accepted(answer) == answer # <<>> /\ Strip(answer) = expected_sequence

(***************************************************************************)
(* solve_attention_video_tool (video_solver/__init__.py)                   *)
(***************************************************************************)
NoResult == [error |-> FALSE, sequence |-> <<>>]

SolveIdle ==
    /\ expected_sequence = <<>> /\ clip = <<>> /\ misread = 0 /\ distinct = <<>>
    /\ decode_outcome = "none" /\ frame_files = <<>>
    /\ tool_digits = <<>> /\ reported = NoResult /\ spc = "idle"

SolveInit ==
    /\ expected_sequence \in GeneratedSequences
    /\ \E loops \in 1..MaxLoops : \E dwell \in 1..MaxDwell :
          clip = ClipOf(Repeat(expected_sequence, loops), dwell)
    /\ misread \in 0..1
    /\ decode_outcome = "none"
    /\ frame_files = <<>>
    /\ distinct = <<>>
    /\ tool_digits = <<>>
    /\ reported = NoResult
    /\ spc = "call"

\* video_path = await download_video(gif_url)
Download ==
    /\ spc = "call"
    /\ spc' = "downloaded"
    /\ UNCHANGED <<expected_sequence, clip, decode_outcome, frame_files, misread,
                   distinct, tool_digits, reported, notSolveVars>>

\* download_video raises (raise_for_status, a network error)
DownloadFails ==
    /\ spc = "call"
    /\ spc' = "raised"
    /\ UNCHANGED <<expected_sequence, clip, decode_outcome, frame_files, misread,
                   distinct, tool_digits, reported, notSolveVars>>

\* what one ffmpeg run leaves in the frames directory: every frame of the
\* clip when it exits with 0; when it exits with an error, nothing, or the
\* frames it had written before the error.  proc.wait() is awaited and its
\* value dropped, so the code sees the files only
DecoderRuns ==
    {[outcome |-> "ok", files |-> Len(clip)],
     [outcome |-> "failed", files |-> 0],
     [outcome |-> "failed", files |-> Min({2, Len(clip)})]}

\* extract_distinct_frames over the frames found, given by their places in
\* the clip
DistinctOf(files) ==
    LET found == extract_distinct_frames([k \in 1..Len(files) |-> clip[files[k]]],
                                         ExtractionConfig)
    IN  [k \in 1..Len(found) |-> files[found[k]]]

\* frames = await extract_distinct_frames(video_path): extract_frames runs
\* ffmpeg and lists the frame files.  if not frames: return ActionResult(error=...)
ExtractFrames ==
    /\ spc = "downloaded"
    /\ \E run \in DecoderRuns :
          /\ decode_outcome' = run.outcome
          /\ frame_files' = [k \in 1..run.files |-> k]
    /\ distinct' = DistinctOf(frame_files')
    /\ IF distinct' = <<>>
       THEN reported' = [error |-> TRUE, sequence |-> <<>>] /\ spc' = "returned"
       ELSE UNCHANGED reported /\ spc' = "extracted"
    /\ UNCHANGED <<expected_sequence, clip, misread, tool_digits, notSolveVars>>

\* asyncio.create_subprocess_exec("ffmpeg", ...) raises (the program cannot be
\* started): the exception leaves extract_frames and the tool
DecoderNotStarted ==
    /\ spc = "downloaded"
    /\ decode_outcome' = "unstarted"
    /\ spc' = "raised"
    /\ UNCHANGED <<expected_sequence, clip, frame_files, misread, distinct, tool_digits,
                   reported, notSolveVars>>

\* the reply for the k-th representative: the digit its frame shows, unless
\* it is the one misread
ReplyFor(k) ==
    IF k = misread THEN [type |-> "text", text |-> <<"n", "o">>]
    ELSE [type |-> "text", text |-> <<clip[distinct[k]].digit>>]

\* all_digits = await read_digits_from_frames(frames)
ReadDigits ==
    /\ spc = "extracted"
    /\ tool_digits' =
          JoinOrdered([k \in 1..Len(distinct) |-> read_digit_from_frame(ReplyFor(k))],
                      <<>>, 1)
    /\ spc' = "read"
    /\ UNCHANGED <<expected_sequence, clip, decode_outcome, frame_files, misread,
                   distinct, reported, notSolveVars>>

\* sequence = detect_repeating_sequence(all_digits); return ActionResult(...)
ReportSequence ==
    /\ spc = "read"
    /\ reported' = [error |-> FALSE, sequence |-> detect_repeating_sequence(tool_digits)]
    /\ spc' = "returned"
    /\ UNCHANGED <<expected_sequence, clip, decode_outcome, frame_files, misread,
                   distinct, tool_digits, notSolveVars>>

(***************************************************************************)
(* analyze_frame as an operation (extract_frames.py)                       *)
(***************************************************************************)
\* the luminances around the two thresholds, black and white
Luminances == {0, 199, 200, 249, 250, 255}

\* every frame of at most MaxPixels pixels
PixelFrames ==
    UNION {UNION {{[width |-> w, height |-> h, data |-> d] :
                      d \in [1..(w * h) -> Luminances]} : h \in 1..(MaxPixels \div w)} :
              w \in 1..MaxPixels}

\* frames one pixel wide made of dark (50) and white (255) rows
RowFrames ==
    UNION {{[width |-> 1, height |-> h, data |-> d] : d \in [1..h -> {50, 255}]} :
              h \in 1..MaxHeight}

\* ExtractionConfig(), ExtractionConfig(blank_threshold=0.5),
\* ExtractionConfig(edge_margin_threshold=0)
AnalyzeConfigs ==
    {ExtractionConfig,
     [ExtractionConfig EXCEPT !.blank_threshold = 500],
     [ExtractionConfig EXCEPT !.edge_margin_threshold = 0]}

NoFrame == [width |-> 0, height |-> 0, data |-> <<>>]
NoAnalysis == [path |-> ""]

AnalyzeIdle ==
    /\ pixels = NoFrame /\ extraction_config = ExtractionConfig
    /\ analysis = NoAnalysis /\ apc = "idle"

AnalyzeInit ==
    /\ pixels \in PixelFrames \cup RowFrames
    /\ extraction_config \in AnalyzeConfigs
    /\ analysis = NoAnalysis
    /\ apc = "call"

\* a variant that never takes the early return of a blank frame
AnalyzeNeverBlank ==
    /\ apc = "call"
    /\ analysis' = analyze_frame("frame.png", pixels,
                                 [extraction_config EXCEPT !.blank_threshold = 1001])
    /\ apc' = "returned"
    /\ UNCHANGED <<pixels, extraction_config, notAnalyzeVars>>

\* a variant that asks for margins twice as wide
AnalyzeWideEdge ==
    /\ apc = "call"
    /\ analysis' = analyze_frame("frame.png", pixels,
              [extraction_config EXCEPT
                  !.edge_margin_threshold = 2 * extraction_config.edge_margin_threshold])
    /\ apc' = "returned"
    /\ UNCHANGED <<pixels, extraction_config, notAnalyzeVars>>

\* analysis = await analyze_frame(frame_path, config)
Analyze ==
    /\ apc = "call"
    /\ analysis' = analyze_frame("frame.png", pixels, extraction_config)
    /\ apc' = "returned"
    /\ UNCHANGED <<pixels, extraction_config, notAnalyzeVars>>

(***************************************************************************)
(* nearby_key as an operation (distributions.py)                           *)
(***************************************************************************)
\* the keys of the table, the upper-case letters, and keys the table lacks
NearbyKeys ==
    DOMAIN QWERTY_NEIGHBORS \cup {UpperLetters[i] : i \in 1..26}
        \cup {"-", "[", "'", "!", "?", "\t", "\n"}

NearbyIdle == intended_key = "" /\ picked_key = "" /\ npc = "idle"

NearbyInit == intended_key \in NearbyKeys /\ picked_key = "" /\ npc = "call"

\* wrong_char = nearby_key(char), over every draw of random.choice
NearbyKey ==
    /\ npc = "call"
    /\ \E pick \in 1..Len(ChoiceList(intended_key)) :
          picked_key' = nearby_key(intended_key, pick)
    /\ npc' = "returned"
    /\ UNCHANGED <<intended_key, notNearbyVars>>

(***************************************************************************)
(* human_type_cdp (typer.py)                                               *)
(* The coroutine is followed from one await to the next: lpc names the     *)
(* await it is suspended at.  An event is dispatched when dispatcher.send  *)
(* is called with it; the coroutine then waits for the call to return.     *)
(*   "delay"       asyncio.sleep before the character                      *)
(*   "wrong_down"  send(keyDown) of the wrong key    "wrong_up"  its keyUp *)
(*   "typo_pause"  asyncio.sleep before Backspace                          *)
(*   "back_down"   send(keyDown) of Backspace        "back_up"   its keyUp *)
(*   "fix_pause"   asyncio.sleep after Backspace                           *)
(*   "char_down"   send(keyDown) of the character    "char_up"   its keyUp *)
(***************************************************************************)
\* the params of Input.dispatchKeyEvent; text is NoChar when it is not passed
KeyDownChar(char) == [type |-> "keyDown", key |-> char, text |-> char]
KeyDownKey(key) == [type |-> "keyDown", key |-> key, text |-> NoChar]
KeyUp(key) == [type |-> "keyUp", key |-> key, text |-> NoChar]

LiveTexts == StringsUpTo({"a", "B", " "}, MaxLiveText)
LiveRates == {0, 5, 10}

Suspended ==
    {"delay", "wrong_down", "wrong_up", "typo_pause", "back_down", "back_up",
     "fix_pause", "char_down", "char_up"}
InSend == {"wrong_down", "wrong_up", "back_down", "back_up", "char_down", "char_up"}

LiveIdle ==
    /\ live_text = <<>> /\ live_typo_rate = 0 /\ char_index = 0 /\ wrong_char = NoChar
    /\ typo_count = 0 /\ dispatched = <<>> /\ lpc = "idle"

LiveInit ==
    /\ live_text \in LiveTexts
    /\ live_typo_rate \in LiveRates
    /\ char_index = 0
    /\ wrong_char = NoChar
    /\ typo_count = 0
    /\ dispatched = <<>>
    /\ lpc = "call"

\* the call: the loop is entered and sleeps before the first character, or
\* the text is empty and the coroutine returns
LiveCall ==
    /\ lpc = "call"
    /\ lpc' = IF Len(live_text) = 0 THEN "returned" ELSE "delay"
    /\ UNCHANGED <<live_text, live_typo_rate, char_index, wrong_char, typo_count,
                   dispatched, notLiveVars>>

\* the sleep before the character is over: if random.random() < typo_rate the
\* wrong key goes down, else the character does
LiveDelayElapsed ==
    /\ lpc = "delay"
    /\ LET char == live_text[char_index + 1]
       IN  \E r \in UnitDraws :
              IF Roll(r, live_typo_rate)
              THEN \E pick \in ChoiceDraws(Len(ChoiceList(char))) :
                      /\ wrong_char' = nearby_key(char, pick)
                      /\ typo_count' = typo_count + 1
                      /\ dispatched' = Append(dispatched, KeyDownChar(wrong_char'))
                      /\ lpc' = "wrong_down"
              ELSE /\ dispatched' = Append(dispatched, KeyDownChar(char))
                   /\ lpc' = "char_down"
                   /\ UNCHANGED <<wrong_char, typo_count>>
    /\ UNCHANGED <<live_text, live_typo_rate, char_index, notLiveVars>>

\* a variant that releases the intended character whatever key went down
LiveKeyUpOfChar ==
    /\ lpc \in {"wrong_down", "back_down", "char_down"}
    /\ dispatched' = Append(dispatched, KeyUp(live_text[char_index + 1]))
    /\ lpc' = CASE lpc = "wrong_down" -> "wrong_up"
                [] lpc = "back_down" -> "back_up"
                [] lpc = "char_down" -> "char_up"
    /\ UNCHANGED <<live_text, live_typo_rate, char_index, wrong_char, typo_count,
                   notLiveVars>>

\* send(keyDown) returned: the keyUp of the same key is sent
LiveKeyDownReturns ==
    /\ lpc \in {"wrong_down", "back_down", "char_down"}
    /\ dispatched' = Append(dispatched, KeyUp(dispatched[Len(dispatched)].key))
    /\ lpc' = CASE lpc = "wrong_down" -> "wrong_up"
                [] lpc = "back_down" -> "back_up"
                [] lpc = "char_down" -> "char_up"
    /\ UNCHANGED <<live_text, live_typo_rate, char_index, wrong_char, typo_count,
                   notLiveVars>>

\* send(keyUp) of the wrong key returned: sleep before Backspace
LiveWrongReleased ==
    /\ lpc = "wrong_up"
    /\ lpc' = "typo_pause"
    /\ UNCHANGED <<live_text, live_typo_rate, char_index, wrong_char, typo_count,
                   dispatched, notLiveVars>>

\* a variant that leaves the typo in place and goes on to the character
LiveTypoLeftUncorrected ==
    /\ lpc = "typo_pause"
    /\ dispatched' = Append(dispatched, KeyDownChar(live_text[char_index + 1]))
    /\ lpc' = "char_down"
    /\ UNCHANGED <<live_text, live_typo_rate, char_index, wrong_char, typo_count,
                   notLiveVars>>

\* the sleep after the wrong key is over: await _dispatch_key("Backspace")
LiveTypoPauseElapsed ==
    /\ lpc = "typo_pause"
    /\ dispatched' = Append(dispatched, KeyDownKey("Backspace"))
    /\ lpc' = "back_down"
    /\ UNCHANGED <<live_text, live_typo_rate, char_index, wrong_char, typo_count,
                   notLiveVars>>

\* send(keyUp) of Backspace returned: sleep before the character
LiveBackspaceReleased ==
    /\ lpc = "back_up"
    /\ lpc' = "fix_pause"
    /\ UNCHANGED <<live_text, live_typo_rate, char_index, wrong_char, typo_count,
                   dispatched, notLiveVars>>

\* the sleep after Backspace is over: await _dispatch_char(dispatcher, char)
LiveFixPauseElapsed ==
    /\ lpc = "fix_pause"
    /\ dispatched' = Append(dispatched, KeyDownChar(live_text[char_index + 1]))
    /\ lpc' = "char_down"
    /\ UNCHANGED <<live_text, live_typo_rate, char_index, wrong_char, typo_count,
                   notLiveVars>>

\* send(keyUp) of the character returned: the next character, or the end
LiveCharReleased ==
    /\ lpc = "char_up"
    /\ char_index' = char_index + 1
    /\ lpc' = IF char_index + 1 = Len(live_text) THEN "returned" ELSE "delay"
    /\ UNCHANGED <<live_text, live_typo_rate, wrong_char, typo_count, dispatched,
                   notLiveVars>>

\* the task is cancelled: CancelledError is raised at the await the coroutine
\* is suspended at; nothing catches it
LiveCancelled ==
    /\ lpc \in Suspended
    /\ lpc' = "cancelled"
    /\ UNCHANGED <<live_text, live_typo_rate, char_index, wrong_char, typo_count,
                   dispatched, notLiveVars>>

\* send_raw raises: the exception leaves human_type_cdp
LiveSendRaises ==
    /\ lpc \in InSend
    /\ lpc' = "raised"
    /\ UNCHANGED <<live_text, live_typo_rate, char_index, wrong_char, typo_count,
                   dispatched, notLiveVars>>

(***************************************************************************)
(* HumanTyperConfig(...) and its use by simulate_typing (typer.py)         *)
(***************************************************************************)
\* keyword arguments in and out of range (rates in tenths)
ConfigArgs ==
    [average_wpm : {-60, 0, 60}, wpm_std_dev : {-5, 0, 15}, typo_rate : {-1, 0, 11},
     typo_correction_rate : {5, 11}, long_pause_chance : {-1, 0}]

NoConfig == [typo_correction_rate |-> 0]

ConfigIdle == config_args = NoConfig /\ typer_config = NoConfig /\ cpc = "idle"

ConfigInit == config_args \in ConfigArgs /\ typer_config = NoConfig /\ cpc = "call"

\* HumanTyperConfig(**config_args): the generated __init__ of the
\* dataclass stores the arguments, the other fields take their defaults
ConstructConfig ==
    /\ cpc = "call"
    /\ typer_config' =
          HumanTyperConfig(config_args.average_wpm, config_args.wpm_std_dev,
                           config_args.typo_rate, config_args.typo_correction_rate,
                           300, 800, config_args.long_pause_chance, 2000)
    /\ cpc' = "constructed"
    /\ UNCHANGED <<config_args, notConfigVars>>

\* simulate_typing(text, config) up to the loop
SimulateWithConfig ==
    /\ cpc = "constructed"
    /\ tpc = "idle"
    /\ text' \in {<<"a">>}
    /\ cfg' = typer_config
    /\ typed' = 0
    /\ prev_char' = NoChar
    /\ current_time' \in StartTimes
    /\ log' = <<>>
    /\ tpc' = "typing"
    /\ cpc' = "passed"
    /\ UNCHANGED <<config_args, typer_config, detVars, voteVars, dedupVars, readVars,
                   solveVars, analyzeVars, nearbyVars, liveVars, twinVars, paramVars,
                   gatherVars, bothVars>>

(***************************************************************************)
(* Two runs of simulate_typing (typer.py) with the same text, the same     *)
(* config and the same draws of the random source, advanced together.      *)
(* text, cfg, typed and prev_char are those of both runs; current_time and *)
(* log belong to the first, twin_time and twin_log to the second.  Each    *)
(* run reads the clock, time.time(), when it starts.                       *)
(***************************************************************************)
TwinIdle == twin_time = 0 /\ twin_log = <<>>

\* both calls up to the loop
TwinInit == TypeInit /\ twin_time \in StartTimes /\ twin_log = <<>>

\* one iteration of `for char in text` in both runs
TwinChar ==
    /\ tpc = "typing"
    /\ typed < Len(text)
    /\ LET char == text[typed + 1]
       IN  \E dd \in DelayDraws(char, prev_char, cfg) :
           \E td \in TypoDraws(char, cfg) :
              LET delay == compute_delay(char, prev_char, cfg, dd)
                  events == CharEvents(char, cfg, current_time + delay, td)
                  twin_events == CharEvents(char, cfg, twin_time + delay, td)
              IN  /\ current_time' = events[Len(events)].time
                  /\ log' = log \o events
                  /\ twin_time' = twin_events[Len(twin_events)].time
                  /\ twin_log' = twin_log \o twin_events
                  /\ prev_char' = char
    /\ typed' = typed + 1
    /\ UNCHANGED <<text, cfg, tpc, detVars, voteVars, dedupVars, readVars, solveVars,
                   analyzeVars, nearbyVars, liveVars, configVars, paramVars, gatherVars,
                   bothVars>>

\* both loops are over: return log
TwinReturn ==
    /\ tpc = "typing"
    /\ typed = Len(text)
    /\ tpc' = "returned"
    /\ UNCHANGED <<text, cfg, typed, prev_char, current_time, log, notTypeVars>>

(***************************************************************************)
(* wpm_to_log_normal_params (distributions.py), in exact arithmetic.       *)
(* A number is a fraction <<n, d>> in lowest terms.  A value built from    *)
(* logarithms is held as the sum it is: a set of terms [arg, halves], one  *)
(* per argument, standing for (halves / 2) * ln(arg).  A square root is    *)
(* held as the value under the root.  Rounding of floats is left out.      *)
(***************************************************************************)
RECURSIVE Gcd(_, _)
Gcd(a, b) == IF b = 0 THEN a ELSE Gcd(b, a % b)

\* n / d in lowest terms, d > 0
Frac(n, d) == <<n \div Gcd(n, d), d \div Gcd(n, d)>>
FracLess(x, y) == x[1] * y[2] < y[1] * x[2]

\* math.log(x)
Log(x) == IF x = <<1, 1>> THEN {} ELSE {[arg |-> x, halves |-> 2]}

HalvesOf(t, x) == IF \E e \in t : e.arg = x THEN (CHOOSE e \in t : e.arg = x).halves ELSE 0
ArgsOf(t) == {e.arg : e \in t}

\* a - b / 2
MinusHalf(a, b) ==
    LET sum == {[arg |-> x, halves |-> HalvesOf(a, x) - (HalvesOf(b, x) \div 2)] :
                   x \in ArgsOf(a) \cup ArgsOf(b)}
    IN  {e \in sum : e.halves # 0}

\* a + b / 2
PlusHalf(a, b) ==
    LET sum == {[arg |-> x, halves |-> HalvesOf(a, x) + (HalvesOf(b, x) \div 2)] :
                   x \in ArgsOf(a) \cup ArgsOf(b)}
    IN  {e \in sum : e.halves # 0}

\* math.sqrt(t) and its square
Sqrt(t) == [sqrt_of |-> t]
Square(r) == r.sqrt_of

\* math.exp(t), as frac * exp(exp_of): the fraction x when t is ln(x), else
\* the sum left as it is
Exp(t) ==
    IF t = {} THEN [frac |-> <<1, 1>>, exp_of |-> {}]
    ELSE IF Cardinality(t) = 1 /\ (CHOOSE e \in t : TRUE).halves = 2
         THEN [frac |-> (CHOOSE e \in t : TRUE).arg, exp_of |-> {}]
         ELSE [frac |-> <<1, 1>>, exp_of |-> t]

\* a variant with mu = ln(mean_iki_ms)
params_without_shift(wpm, wpm_std_dev) ==
    LET mean_iki_ms == Frac(60000, wpm * 5)
        sigma2 == Log(Frac(wpm * wpm + wpm_std_dev * wpm_std_dev, wpm * wpm))
    IN  [mu |-> Log(mean_iki_ms), sigma |-> Sqrt(sigma2)]

wpm_to_log_normal_params(wpm, wpm_std_dev) ==
    LET chars_per_minute == wpm * 5
        mean_iki_ms == Frac(60000, chars_per_minute)
        \* 1 + cv * cv with cv = wpm_std_dev / wpm
        one_plus_cv2 == Frac(wpm * wpm + wpm_std_dev * wpm_std_dev, wpm * wpm)
        sigma2 == Log(one_plus_cv2)
        sigma == Sqrt(sigma2)
        mu == MinusHalf(Log(mean_iki_ms), sigma2)
    IN  [mu |-> mu, sigma |-> sigma]

NoParams == [mu |-> {}, sigma |-> Sqrt({})]

ParamsIdle == wpm_in = 0 /\ std_dev_in = 0 /\ params = NoParams /\ ppc = "idle"

ParamsInit ==
    /\ wpm_in \in 1..MaxWpm
    /\ std_dev_in \in 0..MaxStdDev
    /\ params = NoParams
    /\ ppc = "call"

\* mu, sigma = wpm_to_log_normal_params(wpm, wpm_std_dev)
ComputeParams ==
    /\ ppc = "call"
    /\ params' = wpm_to_log_normal_params(wpm_in, std_dev_in)
    /\ ppc' = "returned"
    /\ UNCHANGED <<wpm_in, std_dev_in, notParamVars>>

(***************************************************************************)
(* extract_distinct_frames (extract_frames.py): the analyses run as tasks  *)
(* of asyncio.gather and complete in any order; the loop over the result   *)
(* and the call of deduplicate_frames follow without an await.             *)
(***************************************************************************)
\* frames one pixel wide and four high: the glyph in the second row, in the
\* third row, cut by the top edge, and no glyph (blank)
SampledFrames ==
    {[width |-> 1, height |-> 4, data |-> d] :
        d \in {<<255, 50, 255, 255>>, <<255, 255, 50, 255>>,
               <<50, 255, 255, 255>>, <<255, 255, 255, 255>>}}

Pending == [path |-> "pending"]

\* a variant that lists the results in the order the analyses completed
GatheredAsCompleted(slots, completed) ==
    [k \in 1..Len(completed) |-> slots[completed[k]]]

\* the list asyncio.gather returns: the result of the i-th awaitable at
\* position i, whatever the order of completion
GatherResult(slots, completed) == slots

RECURSIVE KeepFullyVisible(_, _)
\* for i, analysis in enumerate(analyses): the pairs (analysis, i) kept, up to
\* position n (positions from 1 here, enumerate's i + 1)
KeepFullyVisible(analyses, n) ==
    IF n = 0 THEN <<>>
    ELSE IF ~analyses[n].is_blank /\ analyses[n].is_fully_visible
         THEN Append(KeepFullyVisible(analyses, n - 1),
                     [analysis |-> analyses[n], index |-> n - 1])
         ELSE KeepFullyVisible(analyses, n - 1)

GatherIdle ==
    /\ sampled = <<>> /\ gathered = <<>> /\ analysed_order = <<>>
    /\ kept_frames = <<>> /\ kept_indices = <<>> /\ distinct_paths = <<>>
    /\ xpc = "idle"

GatherInit ==
    /\ \E n \in 0..MaxSampled : sampled \in [1..n -> SampledFrames]
    /\ gathered = <<>> /\ analysed_order = <<>>
    /\ kept_frames = <<>> /\ kept_indices = <<>> /\ distinct_paths = <<>>
    /\ xpc = "call"

\* frame_paths = await extract_frames(...); asyncio.gather(*[analyze_frame(fp,
\* config) for fp in frame_paths]) makes one task per frame
StartAnalyses ==
    /\ xpc = "call"
    /\ gathered' = [i \in 1..Len(sampled) |-> Pending]
    /\ xpc' = "gathering"
    /\ UNCHANGED <<sampled, analysed_order, kept_frames, kept_indices, distinct_paths,
                   notGatherVars>>

\* the analysis of frame i completes, in any order
AnalysisReturns(i) ==
    /\ xpc = "gathering"
    /\ gathered[i] = Pending
    /\ gathered' = [gathered EXCEPT ![i] = analyze_frame(i, sampled[i], ExtractionConfig)]
    /\ analysed_order' = Append(analysed_order, i)
    /\ UNCHANGED <<sampled, kept_frames, kept_indices, distinct_paths, xpc,
                   notGatherVars>>

\* the analysis of frame i raises (the pixels cannot be read): gather passes
\* the exception to the caller, nothing is given to deduplicate_frames
AnalysisRaises(i) ==
    /\ xpc = "gathering"
    /\ gathered[i] = Pending
    /\ xpc' = "raised"
    /\ UNCHANGED <<sampled, gathered, analysed_order, kept_frames, kept_indices,
                   distinct_paths, notGatherVars>>

\* every analysis is done: the loop over enumerate(analyses), then
\* deduplicate_frames(fully_visible, original_indices) and the return
FilterAndDeduplicate ==
    /\ xpc = "gathering"
    /\ \A i \in 1..Len(gathered) : gathered[i] # Pending
    /\ LET analyses == GatherResult(gathered, analysed_order)
           kept == KeepFullyVisible(analyses, Len(analyses))
           fully_visible == [k \in 1..Len(kept) |-> kept[k].analysis]
           indices == [k \in 1..Len(kept) |-> kept[k].index]
           reps == deduplicate_frames(fully_visible, indices)
       IN  /\ kept_frames' = fully_visible
           /\ kept_indices' = indices
           /\ distinct_paths' = [k \in 1..Len(reps) |-> reps[k].path]
    /\ xpc' = "returned"
    /\ UNCHANGED <<sampled, gathered, analysed_order, notGatherVars>>

(***************************************************************************)
(* simulate_typing and human_type_cdp (typer.py) on the same text, with    *)
(* average_wpm and typo_rate of the config given to human_type_cdp, and    *)
(* with the same draws: a draw made for the same purpose by both has the   *)
(* same value.                                                             *)
(***************************************************************************)
\* the milliseconds human_type_cdp sleeps before txt[i] (i from 0): d.iki is
\* the interval drawn, d.pause the draw of the pause after a space, second
\* the draw of the pause after a sentence
live_delay(txt, i, average_wpm, d, second) ==
    LET char == txt[i + 1]
        wpm_std_dev == (average_wpm * 25) \div 100
        delay == sample_iki(average_wpm, wpm_std_dev, d.iki)
        space_pause == IF char = " " THEN 100 + d.pause * 20 ELSE 0
        sentence_pause ==
            IF i > 0 /\ txt[i] \in {".", "!", "?"} /\ char = " "
            THEN 300 + second * 50 ELSE 0
    IN  delay + space_pause + sentence_pause

\* the keys human_type_cdp dispatches for char: after a typo always the wrong
\* key, Backspace and the character
LiveKeys(char, typo_rate, d) ==
    IF Roll(d.typo, typo_rate)
    THEN <<nearby_key(char, d.pick), "Backspace", char>>
    ELSE <<char>>

\* the keys of the events simulate_typing logs for one character
KeysOf(events) == [k \in 1..Len(events) |-> events[k].key]

BothIdle ==
    /\ both_text = <<>> /\ both_cfg = [typo_correction_rate |-> 0] /\ both_index = 0
    /\ offline_delays = <<>> /\ live_delays = <<>>
    /\ offline_keys = <<>> /\ live_keys = <<>> /\ bpc = "idle"

\* simulate_typing(text, config) and human_type_cdp(dispatcher, text,
\* average_wpm=config.average_wpm, typo_rate=config.typo_rate) up to the loop
BothInit ==
    /\ both_text \in Texts
    /\ both_cfg \in Configs
    /\ both_index = 0
    /\ offline_delays = <<>> /\ live_delays = <<>>
    /\ offline_keys = <<>> /\ live_keys = <<>>
    /\ bpc = "typing"

\* one iteration of the loop of each
BothChar ==
    /\ bpc = "typing"
    /\ both_index < Len(both_text)
    /\ LET char == both_text[both_index + 1]
           prev == IF both_index = 0 THEN NoChar ELSE both_text[both_index]
       IN  \E dd \in DelayDraws(char, prev, both_cfg) :
           \E td \in TypoDraws(char, both_cfg) :
           \E second \in UnitDraws :
              /\ offline_delays' =
                    Append(offline_delays, compute_delay(char, prev, both_cfg, dd))
              /\ live_delays' =
                    Append(live_delays,
                           live_delay(both_text, both_index, both_cfg.average_wpm,
                                      dd, second))
              /\ offline_keys' =
                    Append(offline_keys, KeysOf(CharEvents(char, both_cfg, 0, td)))
              /\ live_keys' =
                    Append(live_keys, LiveKeys(char, both_cfg.typo_rate, td))
    /\ both_index' = both_index + 1
    /\ UNCHANGED <<both_text, both_cfg, bpc, notBothVars>>

\* both loops are over
BothReturn ==
    /\ bpc = "typing"
    /\ both_index = Len(both_text)
    /\ bpc' = "returned"
    /\ UNCHANGED <<both_text, both_cfg, both_index, offline_delays, live_delays,
                   offline_keys, live_keys, notBothVars>>

(***************************************************************************)
(* Specifications                                                          *)
(***************************************************************************)
InitDetect == DetectInit /\ VoteIdle /\ DedupIdle /\ ReadIdle /\ TypeIdle /\ SolveIdle
    /\ AnalyzeIdle /\ NearbyIdle /\ LiveIdle /\ ConfigIdle /\ TwinIdle /\ ParamsIdle
    /\ GatherIdle /\ BothIdle
NextDetect == Detect
SpecDetect == InitDetect /\ [][NextDetect]_vars

InitVote == VoteInit /\ DetectIdle /\ DedupIdle /\ ReadIdle /\ TypeIdle /\ SolveIdle
    /\ AnalyzeIdle /\ NearbyIdle /\ LiveIdle /\ ConfigIdle /\ TwinIdle /\ ParamsIdle
    /\ GatherIdle /\ BothIdle
NextVote == Validate
SpecVote == InitVote /\ [][NextVote]_vars

InitDedup == DedupInit /\ DetectIdle /\ VoteIdle /\ ReadIdle /\ TypeIdle /\ SolveIdle
    /\ AnalyzeIdle /\ NearbyIdle /\ LiveIdle /\ ConfigIdle /\ TwinIdle /\ ParamsIdle
    /\ GatherIdle /\ BothIdle
NextDedup == Deduplicate
SpecDedup == InitDedup /\ [][NextDedup]_vars

InitRead == ReadInit /\ DetectIdle /\ VoteIdle /\ DedupIdle /\ TypeIdle /\ SolveIdle
    /\ AnalyzeIdle /\ NearbyIdle /\ LiveIdle /\ ConfigIdle /\ TwinIdle /\ ParamsIdle
    /\ GatherIdle /\ BothIdle
NextRead ==
    \/ StartGather
    \/ \E i \in 1..Len(frame_paths) : ClassifyReturns(i)
    \/ \E i \in 1..Len(frame_paths) : ClassifyRaises(i)
    \/ GatherDone
SpecRead == InitRead /\ [][NextRead]_vars

InitType == TypeInit /\ DetectIdle /\ VoteIdle /\ DedupIdle /\ ReadIdle /\ SolveIdle
    /\ AnalyzeIdle /\ NearbyIdle /\ LiveIdle /\ ConfigIdle /\ TwinIdle /\ ParamsIdle
    /\ GatherIdle /\ BothIdle
NextType == TypeChar \/ TypeReturn
SpecType == InitType /\ [][NextType]_vars

InitSolve ==
    SolveInit /\ DetectIdle /\ VoteIdle /\ DedupIdle /\ ReadIdle /\ TypeIdle
    /\ AnalyzeIdle /\ NearbyIdle /\ LiveIdle /\ ConfigIdle /\ TwinIdle /\ ParamsIdle
    /\ GatherIdle /\ BothIdle
NextSolve ==
    \/ Download \/ DownloadFails \/ ExtractFrames \/ DecoderNotStarted
    \/ ReadDigits \/ ReportSequence
SpecSolve == InitSolve /\ [][NextSolve]_vars

InitAnalyze ==
    AnalyzeInit /\ DetectIdle /\ VoteIdle /\ DedupIdle /\ ReadIdle /\ TypeIdle
    /\ SolveIdle /\ NearbyIdle /\ LiveIdle /\ ConfigIdle /\ TwinIdle /\ ParamsIdle
    /\ GatherIdle /\ BothIdle
NextAnalyze == Analyze
SpecAnalyze == InitAnalyze /\ [][NextAnalyze]_vars

InitNearby ==
    NearbyInit /\ DetectIdle /\ VoteIdle /\ DedupIdle /\ ReadIdle /\ TypeIdle
    /\ SolveIdle /\ AnalyzeIdle /\ LiveIdle /\ ConfigIdle /\ TwinIdle /\ ParamsIdle
    /\ GatherIdle /\ BothIdle
NextNearby == NearbyKey
SpecNearby == InitNearby /\ [][NextNearby]_vars

InitLive ==
    LiveInit /\ DetectIdle /\ VoteIdle /\ DedupIdle /\ ReadIdle /\ TypeIdle
    /\ SolveIdle /\ AnalyzeIdle /\ NearbyIdle /\ ConfigIdle /\ TwinIdle /\ ParamsIdle
    /\ GatherIdle /\ BothIdle
NextLive ==
    \/ LiveCall \/ LiveDelayElapsed \/ LiveKeyDownReturns \/ LiveWrongReleased
    \/ LiveTypoPauseElapsed \/ LiveBackspaceReleased \/ LiveFixPauseElapsed
    \/ LiveCharReleased \/ LiveCancelled \/ LiveSendRaises
SpecLive == InitLive /\ [][NextLive]_vars

InitConfig ==
    ConfigInit /\ DetectIdle /\ VoteIdle /\ DedupIdle /\ ReadIdle /\ TypeIdle
    /\ SolveIdle /\ AnalyzeIdle /\ NearbyIdle /\ LiveIdle /\ TwinIdle /\ ParamsIdle
    /\ GatherIdle /\ BothIdle
NextConfig == ConstructConfig \/ SimulateWithConfig
SpecConfig == InitConfig /\ [][NextConfig]_vars

InitTwin ==
    TwinInit /\ DetectIdle /\ VoteIdle /\ DedupIdle /\ ReadIdle /\ SolveIdle
    /\ AnalyzeIdle /\ NearbyIdle /\ LiveIdle /\ ConfigIdle /\ ParamsIdle /\ GatherIdle
    /\ BothIdle
NextTwin == TwinChar \/ TwinReturn
SpecTwin == InitTwin /\ [][NextTwin]_vars

InitParams ==
    ParamsInit /\ DetectIdle /\ VoteIdle /\ DedupIdle /\ ReadIdle /\ TypeIdle
    /\ SolveIdle /\ AnalyzeIdle /\ NearbyIdle /\ LiveIdle /\ ConfigIdle /\ TwinIdle
    /\ GatherIdle /\ BothIdle
NextParams == ComputeParams
SpecParams == InitParams /\ [][NextParams]_vars

InitGather ==
    GatherInit /\ DetectIdle /\ VoteIdle /\ DedupIdle /\ ReadIdle /\ TypeIdle
    /\ SolveIdle /\ AnalyzeIdle /\ NearbyIdle /\ LiveIdle /\ ConfigIdle /\ TwinIdle
    /\ ParamsIdle /\ BothIdle
NextGather ==
    \/ StartAnalyses
    \/ \E i \in 1..Len(sampled) : AnalysisReturns(i)
    \/ \E i \in 1..Len(sampled) : AnalysisRaises(i)
    \/ FilterAndDeduplicate
SpecGather == InitGather /\ [][NextGather]_vars

InitBoth ==
    BothInit /\ DetectIdle /\ VoteIdle /\ DedupIdle /\ ReadIdle /\ TypeIdle
    /\ SolveIdle /\ AnalyzeIdle /\ NearbyIdle /\ LiveIdle /\ ConfigIdle /\ TwinIdle
    /\ ParamsIdle /\ GatherIdle
NextBoth == BothChar \/ BothReturn
SpecBoth == InitBoth /\ [][NextBoth]_vars

(***************************************************************************)
(* Properties                                                              *)
(***************************************************************************)
IsRepetitionOf(s, u) ==
    /\ Len(u) > 0
    /\ Len(s) % Len(u) = 0
    /\ s = Repeat(u, Len(s) \div Len(u))

\* lengths k such that s is a whole number of repetitions of s[:k]
WholeUnitLengths(s) == {k \in 1..Len(s) : IsRepetitionOf(s, Slice(s, 0, k))}

ShortestUnit(s) == Slice(s, 0, Min(WholeUnitLengths(s)))

\* s is k >= 2 whole repetitions of some unit
IsRepeated(s) == Len(s) > 0 /\ Min(WholeUnitLengths(s)) <= Len(s) \div 2

\* C3: for every string made of k >= 2 whole repetitions of a unit,
\* detect_repeating_sequence returns the shortest unit of which the string is
\* a whole number of repetitions.
C3_ShortestWholeUnit ==
    (dpc = "returned" /\ IsRepeated(digits)) => detected = ShortestUnit(digits)

\* the chunk indices k (0-based) that have a character at position p
ChunksWith(s, L, p) == {k \in 0..(Len(s) \div L) : k * L + p < Len(s)}
CharAt(s, L, k, p) == s[k * L + p + 1]
CharsAt(s, L, p) == {CharAt(s, L, k, p) : k \in ChunksWith(s, L, p)}
CountAt(s, L, p, c) ==
    Cardinality({k \in ChunksWith(s, L, p) : CharAt(s, L, k, p) = c})
FirstAt(s, L, p, c) == Min({k \in ChunksWith(s, L, p) : CharAt(s, L, k, p) = c})

\* C7: when the raw string is longer than L, the character returned at each
\* position p < L is one found at position p of the length-L chunks with the
\* highest count there, and among characters with that count the one that
\* occurs first; the loops 3169, 3189, 3169 give 3169.
C7_PluralityVote ==
    /\ (/\ vpc = "returned"
        /\ sequence_length = 4
        /\ all_digits = <<"3","1","6","9","3","1","8","9","3","1","6","9">>)
            => validated = <<"3","1","6","9">>
    /\ (vpc = "returned" /\ Len(all_digits) > sequence_length) =>
        \A p \in 0..(sequence_length - 1) :
            /\ p + 1 <= Len(validated)
            /\ validated[p + 1] \in CharsAt(all_digits, sequence_length, p)
            /\ \A d \in CharsAt(all_digits, sequence_length, p) \ {validated[p + 1]} :
                  LET c == validated[p + 1]
                      nc == CountAt(all_digits, sequence_length, p, c)
                      nd == CountAt(all_digits, sequence_length, p, d)
                  IN  \/ nc > nd
                      \/ /\ nc = nd
                         /\ FirstAt(all_digits, sequence_length, p, c)
                                < FirstAt(all_digits, sequence_length, p, d)

\* a tie at position 0 (x against 3, one vote each, the final chunk being
\* shorter) goes to the character read first
C7_TieWitness ==
    /\ vpc = "returned"
    /\ sequence_length = 2
    /\ all_digits = <<"x","1","3","1","1">>
    /\ validated = <<"x","1">>

\* C8: for L >= 1 the raw string is returned unchanged when its length is at
\* most L, and otherwise the result has exactly L characters.
C8_LengthOfResult ==
    vpc = "returned" =>
        IF Len(all_digits) <= sequence_length
        THEN validated = all_digits
        ELSE Len(validated) = sequence_length

\* a vote over chunks that all differ at some position, with a shorter final chunk
C8_Witness ==
    /\ vpc = "returned"
    /\ Len(all_digits) > sequence_length
    /\ Len(all_digits) % sequence_length # 0
    /\ \E p \in 0..(sequence_length - 1) :
          \A c \in CharsAt(all_digits, sequence_length, p) :
              CountAt(all_digits, sequence_length, p, c) = 1
    /\ Len(validated) = sequence_length

\* positions i >= 2 at which a new group starts
GapPositions(idx) == {i \in 2..Len(idx) : idx[i] - idx[i - 1] > 1}
\* the number of the maximal run that position i lies in
RunOf(idx, i) == 1 + Cardinality({j \in GapPositions(idx) : j <= i})
RunMembers(idx, g) == {i \in 1..Len(idx) : RunOf(idx, i) = g}

\* C9: deduplicate_frames returns one frame per maximal run of positions
\* whose consecutive original indices differ by at most 1 (1 + the number of
\* gaps > 1 for a non-empty input, nothing for an empty input), the
\* representative of the g-th run at place g.
C9_OnePerRun ==
    fpc = "returned" =>
        IF frames = <<>>
        THEN representatives = <<>>
        ELSE /\ Len(representatives) = 1 + Cardinality(GapPositions(original_indices))
             /\ \A g \in 1..Len(representatives) :
                    representatives[g].path \in RunMembers(original_indices, g)

\* three frames, a run of two then a gap: two representatives
C9_Witness ==
    /\ fpc = "returned"
    /\ Len(frames) = 3
    /\ GapPositions(original_indices) = {3}
    /\ Len(representatives) = 2

\* C10: the representative of a group is a member of the group with the least
\* |top_margin - bottom_margin|, and the earliest such member in input order.
C10_BestCentredEarliest ==
    fpc = "returned" =>
        \A g \in 1..Len(representatives) :
            LET members == RunMembers(original_indices, g)
                rep == representatives[g]
            IN  /\ rep.path \in members
                /\ rep = frames[rep.path]
                /\ \A j \in members :
                      \/ CenterScore(frames[j]) > CenterScore(rep)
                      \/ CenterScore(frames[j]) = CenterScore(rep) /\ rep.path <= j

\* a group whose first member is not the best, and whose best score is shared
\* by two members: the earlier of the two is returned
C10_Witness ==
    /\ fpc = "returned"
    /\ Len(frames) = 3
    /\ GapPositions(original_indices) = {}
    /\ CenterScore(frames[1]) > CenterScore(frames[2])
    /\ CenterScore(frames[2]) = CenterScore(frames[3])
    /\ representatives = <<frames[2]>>

\* the per-frame results, concatenated in the order of frame_paths
RECURSIVE InFrameOrder(_, _)
InFrameOrder(res, n) ==
    IF n = 0 THEN <<>> ELSE InFrameOrder(res, n - 1) \o res[n]

\* C5: read_digits_from_frames returns the per-frame results concatenated in
\* the order of frame_paths, whatever the order in which the requests
\* complete; an empty frame list gives the empty string.
C5_OrderOfFramePaths ==
    (rpc = "returned" /\ entry.fn = "read_digits_from_frames") =>
        /\ returned_digits = InFrameOrder(results, Len(frame_paths))
        /\ frame_paths = <<>> => returned_digits = <<>>

\* the last frame completes first, with a result unlike the others'
C5_Witness ==
    /\ rpc = "returned"
    /\ entry.fn = "read_digits_from_frames"
    /\ completion_order = <<3, 1, 2>>
    /\ results = <<<<"3">>, <<"1">>, <<"n", "o">>>>
    /\ returned_digits = <<"3", "1", "n", "o">>

\* C6: the failure of one frame's classification never aborts the batch:
\* read_digits_from_frames and read_digits_with_validation still complete.
C6_FailureDoesNotAbort == failed # {} => rpc # "raised"

\* C1: in every log of simulate_typing each event is later than the event
\* before it, across clean keys, typos, Backspace corrections and retyped
\* characters.
C1_TimestampsIncrease ==
    \A i \in 2..Len(log) : log[i].time > log[i - 1].time

\* a returned log holding a corrected typo followed by a clean key whose
\* delay was raised to the minimum
C1_Witness ==
    /\ tpc = "returned"
    /\ Len(log) = 4
    /\ log[1].is_typo /\ log[2].is_correction
    /\ ~log[4].is_typo
    /\ log[4].time = log[3].time + MinDelay

\* C2: with typo_correction_rate = 1.0 every event marked is_typo is
\* immediately followed by a Backspace marked is_correction.
C2_TypoThenBackspace ==
    cfg.typo_correction_rate = 10 =>
        \A i \in 1..Len(log) :
            log[i].is_typo =>
                /\ i + 1 <= Len(log)
                /\ log[i + 1].key = "Backspace"
                /\ log[i + 1].is_correction

\* a returned log with two typos, at a typo rate below 1
C2_Witness ==
    /\ tpc = "returned"
    /\ cfg.typo_correction_rate = 10
    /\ cfg.typo_rate = 5
    /\ Cardinality({i \in 1..Len(log) : log[i].is_typo}) = 2

\* the clip shows the hidden sequence two or more times, it was decoded
\* whole, and every representative was classified correctly
LoopedAndWellRead ==
    /\ misread = 0
    /\ decode_outcome = "ok"
    /\ \E loops \in 2..MaxLoops : \E dwell \in 1..MaxDwell :
          clip = ClipOf(Repeat(expected_sequence, loops), dwell)

\* C4: when every representative frame is classified correctly and the clip
\* loops the hidden sequence S two or more times, the tool reports exactly S,
\* the answer the server accepts.
C4_ReportsExpectedSequence ==
    (spc = "returned" /\ ~reported.error /\ LoopedAndWellRead) =>
        /\ reported.sequence = expected_sequence
        /\ Accepted(reported.sequence)

(***************************************************************************)
(* analyze_frame                                                           *)
(***************************************************************************)
\* the number of pixels of frame f at least as bright as limit
BrightCount(f, limit) == Cardinality({i \in 1..Len(f.data) : f.data[i] >= limit})

\* the rows of f (0-based) that count as content under configuration c
ContentRowsOf(f, c) ==
    {y \in 0..(f.height - 1) :
        1000 * Cardinality({i \in (y * f.width + 1)..((y + 1) * f.width) :
                               f.data[i] < c.content_luminance_threshold})
            >= c.content_row_threshold * f.width}

AllPixels(f, v) == \A i \in 1..Len(f.data) : f.data[i] = v

\* C11: analyze_frame reports is_blank exactly when the fraction of pixels at
\* least bright_luminance reaches blank_threshold; a blank frame has both
\* margins 1.0 (all the rows of the frame), is not fully visible and has
\* content_hash 0; an all-white frame is blank, an all-black one is not
C11_BlankExactlyAtThreshold ==
    apc = "returned" =>
        /\ analysis.is_blank <=>
              1000 * BrightCount(pixels, extraction_config.bright_luminance)
                  >= extraction_config.blank_threshold * pixels.width * pixels.height
        /\ analysis.is_blank =>
              /\ analysis.top_margin = pixels.height
              /\ analysis.bottom_margin = pixels.height
              /\ ~analysis.is_fully_visible
              /\ analysis.content_hash[1] = 0
        /\ AllPixels(pixels, 255) => analysis.is_blank
        /\ AllPixels(pixels, 0) => ~analysis.is_blank

\* a frame reported blank although one of its pixels is dark
C11_Witness ==
    /\ apc = "returned"
    /\ analysis.is_blank
    /\ \E i \in 1..Len(pixels.data) : pixels.data[i] = 0

\* C12: a non-blank frame is fully visible exactly when both margins reach
\* edge_margin_threshold; with content rows the margins are yMin/height and
\* (height - 1 - yMax)/height (held as rows over the common height); with a
\* positive threshold a content row at row 0 or at the last row rules out
\* fully visible
C12_FullyVisibleByMargins ==
    (apc = "returned" /\ ~analysis.is_blank) =>
        LET rows == ContentRowsOf(pixels, extraction_config)
            threshold == extraction_config.edge_margin_threshold
        IN  /\ analysis.is_fully_visible <=>
                  /\ 1000 * analysis.top_margin >= threshold * pixels.height
                  /\ 1000 * analysis.bottom_margin >= threshold * pixels.height
            /\ rows # {} =>
                  /\ analysis.top_margin = Min(rows)
                  /\ analysis.bottom_margin = pixels.height - 1 - Max(rows)
            /\ (threshold > 0 /\ (0 \in rows \/ (pixels.height - 1) \in rows)) =>
                  ~analysis.is_fully_visible

\* a frame with a wide top margin whose content reaches the last row
C12_Witness ==
    /\ apc = "returned"
    /\ ~analysis.is_blank
    /\ extraction_config.edge_margin_threshold > 0
    /\ (pixels.height - 1) \in ContentRowsOf(pixels, extraction_config)
    /\ analysis.top_margin >= 2
    /\ ~analysis.is_fully_visible

\* the content rows of the frame analyzed lie within (10%, 90%) of the height
ContentWithinBand ==
    LET rows == ContentRowsOf(pixels, extraction_config)
    IN  /\ rows # {}
        /\ 10 * Min(rows) > pixels.height
        /\ 10 * Max(rows) < 9 * pixels.height

\* C13 as stated: with the default threshold 0.10, for every width and height
\* a non-blank frame whose content rows lie within (10%, 90%) of the height
\* is fully visible
C13_BandIsFullyVisible ==
    (/\ apc = "returned"
     /\ ~analysis.is_blank
     /\ extraction_config.edge_margin_threshold = 100
     /\ ContentWithinBand) => analysis.is_fully_visible

\* C13 amended: the same, for the heights that are a multiple of 10
C13_BandIsFullyVisibleTenths ==
    (/\ apc = "returned"
     /\ ~analysis.is_blank
     /\ extraction_config.edge_margin_threshold = 100
     /\ pixels.height % 10 = 0
     /\ ContentWithinBand) => analysis.is_fully_visible

\* a frame 10 rows high whose last content row is row 8
C13_Witness ==
    /\ apc = "returned"
    /\ ~analysis.is_blank
    /\ extraction_config.edge_margin_threshold = 100
    /\ pixels.height % 10 = 0
    /\ ContentWithinBand
    /\ Max(ContentRowsOf(pixels, extraction_config)) = 8
    /\ analysis.is_fully_visible

(***************************************************************************)
(* nearby_key                                                              *)
(***************************************************************************)
IsLetter(c) == \E i \in 1..26 : LowerLetters[i] = c \/ UpperLetters[i] = c

\* the neighbours the table lists for the lowercase form of key k
ListedNeighbours(k) ==
    IF Lower(k) \in DOMAIN QWERTY_NEIGHBORS
    THEN {QWERTY_NEIGHBORS[Lower(k)][i] : i \in 1..Len(QWERTY_NEIGHBORS[Lower(k)])}
    ELSE {}

\* C14: for a key with listed neighbours nearby_key never returns the key
\* itself, returns a listed neighbour (upper-cased when the key is upper
\* case) and keeps the key's case (an upper-case key gives a result equal to
\* its own upper-case form, a lower-case key one equal to its lower-case
\* form); for a key without listed neighbours it returns a single letter
C14_NeighbourOfSameCase ==
    npc = "returned" =>
        LET listed == ListedNeighbours(intended_key)
            is_upper == intended_key # Lower(intended_key)
        IN  IF listed # {}
            THEN /\ picked_key # intended_key
                 /\ IF is_upper
                    THEN /\ picked_key \in {Upper(n) : n \in listed}
                         /\ picked_key = Upper(picked_key)
                    ELSE /\ picked_key \in listed
                         /\ picked_key = Lower(picked_key)
            ELSE IsLetter(picked_key)

\* an upper-case key for which an upper-cased neighbour was returned
C14_Witness ==
    /\ npc = "returned"
    /\ intended_key = "T"
    /\ picked_key = "R"

(***************************************************************************)
(* human_type_cdp                                                          *)
(***************************************************************************)
\* every keyDown of the events is followed at once by the keyUp of its key
NoKeyHeld(events) ==
    \A i \in 1..Len(events) :
        events[i].type = "keyDown" =>
            (i < Len(events) /\ events[i + 1] = KeyUp(events[i].key))

\* C15: a run cancelled at any suspension point has dispatched the keyUp of
\* every key whose keyDown it dispatched: no key is left held down
C15_NoKeyHeldOnCancel == lpc = "cancelled" => NoKeyHeld(dispatched)

RECURSIVE TypedInOrder(_, _)
\* the events are, character by character in the order of txt, the key pair
\* of the character alone or the pairs of a wrong key, Backspace, the character
TypedInOrder(events, txt) ==
    IF txt = <<>> THEN events = <<>>
    ELSE LET c == Head(txt)
             n == Len(events)
         IN  \/ /\ n >= 2
                /\ SubSeq(events, 1, 2) = <<KeyDownChar(c), KeyUp(c)>>
                /\ TypedInOrder(SubSeq(events, 3, n), Tail(txt))
             \/ /\ n >= 6
                /\ events[1] = KeyDownChar(events[1].key)
                /\ events[1].key # "Backspace"
                /\ SubSeq(events, 2, 6) =
                      <<KeyUp(events[1].key), KeyDownKey("Backspace"),
                        KeyUp("Backspace"), KeyDownChar(c), KeyUp(c)>>
                /\ TypedInOrder(SubSeq(events, 7, n), Tail(txt))

RECURSIVE Spelled(_, _)
\* what the keys pressed in events[1..i] leave on the page: Backspace deletes
\* the previous key, any other key is added
Spelled(events, i) ==
    IF i = 0 THEN <<>>
    ELSE LET before == Spelled(events, i - 1)
         IN  IF events[i].type # "keyDown" THEN before
             ELSE IF events[i].key = "Backspace"
                  THEN SubSeq(before, 1, Len(before) - 1)
                  ELSE Append(before, events[i].key)

\* C16: a run that returns has dispatched, for each character in text order,
\* the character alone or the wrong key, Backspace, the character; with N
\* characters and T typo rolls that is 2 * (N + 2 * T) calls (2N at typo_rate
\* 0, 6N at typo_rate 1); the keys pressed spell the text
C16_TypoAlwaysCorrected ==
    lpc = "returned" =>
        /\ TypedInOrder(dispatched, live_text)
        /\ Len(dispatched) = 2 * (Len(live_text) + 2 * typo_count)
        /\ live_typo_rate = 0 => Len(dispatched) = 2 * Len(live_text)
        /\ live_typo_rate = 10 => Len(dispatched) = 6 * Len(live_text)
        /\ Spelled(dispatched, Len(dispatched)) = live_text

\* a run that returned after one typo in a text of two characters
C16_Witness ==
    /\ lpc = "returned"
    /\ Len(live_text) = 2
    /\ typo_count = 1
    /\ Len(dispatched) = 8

(***************************************************************************)
(* HumanTyperConfig                                                        *)
(***************************************************************************)
\* the values are in range: average_wpm > 0, wpm_std_dev >= 0, the rates
\* within [0, 1] (tenths)
InRange(c) ==
    /\ c.average_wpm > 0
    /\ c.wpm_std_dev >= 0
    /\ c.typo_rate \in 0..10
    /\ c.typo_correction_rate \in 0..10
    /\ c.long_pause_chance \in 0..10

\* C17: a HumanTyperConfig with an out-of-range value is rejected at
\* construction, so no object is constructed from it and simulate_typing
\* never runs with one
C17_OutOfRangeRejected ==
    /\ cpc \in {"constructed", "passed"} => InRange(typer_config)
    /\ tpc = "typing" => InRange(cfg)

(***************************************************************************)
(* Decode failures                                                         *)
(***************************************************************************)
\* C18: when decoding fails or yields no frame, extract_frames reports an
\* empty list and does not raise, extract_distinct_frames returns an empty
\* list, and the tool returns an error result without any classification
C18_DecodeFailureIsEmptyList ==
    (decode_outcome \in {"failed", "unstarted"}
        \/ (decode_outcome = "ok" /\ frame_files = <<>>)) =>
        /\ spc = "returned"
        /\ frame_files = <<>>
        /\ distinct = <<>>
        /\ reported.error
        /\ tool_digits = <<>>

(***************************************************************************)
(* Reproducibility of simulate_typing                                      *)
(***************************************************************************)
\* C19: two runs of simulate_typing with the same text, the same config and
\* the same random draws return identical logs: the same keys, flags and
\* timestamps
C19_SameDrawsSameLog == tpc = "returned" => twin_log = log

\* the two logs with the timestamps left out
Untimed(events) ==
    [i \in 1..Len(events) |->
        [key |-> events[i].key, is_typo |-> events[i].is_typo,
         is_correction |-> events[i].is_correction]]

\* what the two runs do share: the keys and the flags, and timestamps that
\* differ by the difference of the two clock readings
SameKeysAndFlags ==
    /\ Untimed(twin_log) = Untimed(log)
    /\ \A i \in 1..Len(log) : \A j \in 1..Len(log) :
          twin_log[i].time - log[i].time = twin_log[j].time - log[j].time

(***************************************************************************)
(* detect_repeating_sequence: totality                                     *)
(***************************************************************************)
IsPrefixOf(p, s) == Len(p) <= Len(s) /\ SubSeq(s, 1, Len(p)) = p

\* the candidate lengths 1..floor(n/2) that the detector accepts: every
\* chunk of full length after the first equals the first
AcceptedLengths(s) ==
    {L \in 1..(Len(s) \div 2) :
        \A k \in 1..((Len(s) \div L) - 1) :
            SubSeq(s, k * L + 1, (k + 1) * L) = SubSeq(s, 1, L)}

\* C20: detect_repeating_sequence returns for every input, the empty and the
\* one-character strings included; it returns the input unchanged when no
\* candidate length is accepted ("abc" gives "abc"); its result is a prefix
\* of the input
C20_TotalAndPrefix ==
    /\ dpc = "call" => ENABLED Detect
    /\ dpc = "returned" =>
          /\ IsPrefixOf(detected, digits)
          /\ AcceptedLengths(digits) = {} => detected = digits
          /\ Len(digits) <= 1 => detected = digits
          /\ digits = <<"a", "b", "c">> => detected = <<"a", "b", "c">>

\* "abc" was given and came back unchanged
C20_Witness ==
    /\ dpc = "returned"
    /\ digits = <<"a", "b", "c">>
    /\ detected = digits

(***************************************************************************)
(* read_digit_from_frame                                                   *)
(***************************************************************************)
\* the places of the decimal digits of t, and of its characters that are
\* not whitespace
DigitPlaces(t) == {i \in 1..Len(t) : t[i] \in DecimalDigits}
InkPlaces(t) == {i \in 1..Len(t) : t[i] \notin Whitespace}

\* t without its leading and trailing whitespace
Trimmed(t) ==
    IF InkPlaces(t) = {} THEN <<>> ELSE SubSeq(t, Min(InkPlaces(t)), Max(InkPlaces(t)))

\* C21: read_digit_from_frame returns the first decimal digit of the reply
\* text when there is one, else the reply text trimmed of surrounding
\* whitespace, and the empty string when the first block is not text
C21_FirstDigitOrTrimmedText ==
    \A i \in 1..Len(results) :
        results[i] # NotDone =>
            LET block == replies[i]
            IN  IF block.type # "text" THEN results[i] = <<>>
                ELSE IF DigitPlaces(block.text) # {}
                     THEN results[i] = <<block.text[Min(DigitPlaces(block.text))]>>
                     ELSE results[i] = Trimmed(block.text)

\* a reply with two digits was read as its first digit
C21_Witness ==
    \E i \in 1..Len(results) :
        /\ results[i] # NotDone
        /\ replies[i].type = "text"
        /\ Cardinality(DigitPlaces(replies[i].text)) = 2
        /\ results[i] = <<"7">>

\* C24: the raw digit string of read_digits_from_frames has exactly one
\* character per frame, character i being the result for frame i, whatever
\* the replies are
C24_OneCharacterPerFrame ==
    (rpc = "returned" /\ entry.fn = "read_digits_from_frames") =>
        /\ Len(returned_digits) = Len(frame_paths)
        /\ \A i \in 1..Len(frame_paths) : results[i] = <<returned_digits[i]>>

(***************************************************************************)
(* wpm_to_log_normal_params                                                *)
(***************************************************************************)
\* exp(mu + sigma^2 / 2), the mean of the log-normal with these parameters
AnalyticMean(p) == Exp(PlusHalf(p.mu, Square(p.sigma)))

\* C22: for wpm > 0 and wpm_std_dev >= 0, sigma^2 is ln(1 + (wpm_std_dev /
\* wpm)^2) and exp(mu + sigma^2 / 2) is 60000 / (5 * wpm): 200 ms at 60 WPM,
\* and less for any faster WPM
C22_AnalyticMeanIsTarget ==
    ppc = "returned" =>
        /\ Square(params.sigma) =
              Log(Frac(wpm_in * wpm_in + std_dev_in * std_dev_in, wpm_in * wpm_in))
        /\ AnalyticMean(params) = [frac |-> Frac(12000, wpm_in), exp_of |-> {}]
        /\ wpm_in = 60 => AnalyticMean(params).frac = <<200, 1>>
        /\ \A faster \in (wpm_in + 1)..MaxWpm :
              LET mean == AnalyticMean(wpm_to_log_normal_params(faster, std_dev_in))
              IN  mean.exp_of = {} /\ FracLess(mean.frac, AnalyticMean(params).frac)

\* the parameters of 60 WPM with deviation 15: mu is ln(200) less half of
\* sigma^2, and the mean is 200 ms
C22_Witness ==
    /\ ppc = "returned"
    /\ wpm_in = 60
    /\ std_dev_in = 15
    /\ Cardinality(params.mu) = 2
    /\ AnalyticMean(params) = [frac |-> <<200, 1>>, exp_of |-> {}]

(***************************************************************************)
(* detect_repeating_sequence: the final chunk                              *)
(***************************************************************************)
\* the detector accepted a candidate: it returned a prefix of at most half
\* the input (when none is accepted the whole input is returned)
CandidateAccepted ==
    dpc = "returned" /\ Len(detected) >= 1 /\ Len(detected) <= Len(digits) \div 2

\* C23: a candidate length is accepted only if every later chunk
\* s[i:i+length], a final chunk shorter than the candidate included, equals
\* the candidate cut to the length of the chunk
C23_FinalChunkCompared ==
    CandidateAccepted =>
        LET L == Len(detected)
        IN  \A k \in 1..((Len(digits) - 1) \div L) :
               LET stop == Min({(k + 1) * L, Len(digits)})
               IN  SubSeq(digits, k * L + 1, stop) = SubSeq(detected, 1, stop - k * L)

(***************************************************************************)
(* simulate_typing: the log replayed                                       *)
(***************************************************************************)
RECURSIVE Replayed(_, _)
\* the buffer after events[1..i] are replayed into an empty buffer:
\* "Backspace" removes the last character, any other key appends itself
Replayed(events, i) ==
    IF i = 0 THEN <<>>
    ELSE LET before == Replayed(events, i - 1)
         IN  IF events[i].key = "Backspace"
             THEN SubSeq(before, 1, Len(before) - 1)
             ELSE Append(before, events[i].key)

\* C25: when every typo is corrected (typo_correction_rate = 1.0, or
\* typo_rate = 0) the log replayed yields the text typed so far, and the
\* whole text at the return; the buffer grows by at most one per event, and
\* every key is one character or "Backspace"
C25_ReplayYieldsText ==
    (cfg.typo_correction_rate = 10 \/ cfg.typo_rate = 0) =>
        /\ Replayed(log, Len(log)) = Slice(text, 0, typed)
        /\ tpc = "returned" => Replayed(log, Len(log)) = text
        /\ \A i \in 1..Len(log) :
              /\ Len(Replayed(log, i)) <= Len(Replayed(log, i - 1)) + 1
              /\ log[i].key = "Backspace" \/ Len(log[i].key) = 1

\* a returned log of two characters with one corrected typo
C25_Witness ==
    /\ tpc = "returned"
    /\ cfg.typo_correction_rate = 10
    /\ Len(text) = 2
    /\ Len(log) = 4
    /\ Replayed(log, Len(log)) = text

(***************************************************************************)
(* simulate_typing: the three outcomes of a character                      *)
(***************************************************************************)
Unmarked(e, c) == e.key = c /\ ~e.is_typo /\ ~e.is_correction
WrongKey(e) == e.is_typo /\ ~e.is_correction /\ e.key # "Backspace"
BackspaceKey(e) == e.key = "Backspace" /\ e.is_correction /\ ~e.is_typo

RECURSIVE InGroups(_, _)
\* the events are, character by character in the order of txt, one of: the
\* character unmarked; a wrong key alone; a wrong key, Backspace, the character
InGroups(events, txt) ==
    IF txt = <<>> THEN events = <<>>
    ELSE LET c == Head(txt)
             n == Len(events)
         IN  \/ /\ n >= 1
                /\ Unmarked(events[1], c)
                /\ InGroups(SubSeq(events, 2, n), Tail(txt))
             \/ /\ n >= 1
                /\ WrongKey(events[1])
                /\ InGroups(SubSeq(events, 2, n), Tail(txt))
             \/ /\ n >= 3
                /\ WrongKey(events[1])
                /\ BackspaceKey(events[2])
                /\ Unmarked(events[3], c)
                /\ InGroups(SubSeq(events, 4, n), Tail(txt))

\* C26: for each character in text order simulate_typing appends exactly one
\* of the three groups; no event is both is_typo and is_correction, and an
\* event has key "Backspace" exactly when is_correction is set
C26_ThreeEventGroups ==
    /\ InGroups(log, Slice(text, 0, typed))
    /\ \A i \in 1..Len(log) :
          /\ ~(log[i].is_typo /\ log[i].is_correction)
          /\ log[i].key = "Backspace" <=> log[i].is_correction

\* a returned log of two events: a typo left uncorrected, then a clean character
C26_Witness ==
    /\ tpc = "returned"
    /\ Len(text) = 2
    /\ Len(log) = 2
    /\ log[1].is_typo
    /\ Unmarked(log[2], text[2])

(***************************************************************************)
(* human_type_cdp: the order of the dispatch calls                         *)
(***************************************************************************)
\* the keys down after the first n dispatch calls
KeysDown(n) ==
    Cardinality({i \in 1..n : dispatched[i].type = "keyDown"})
        - Cardinality({i \in 1..n : dispatched[i].type = "keyUp"})

\* the calls at odd places are keyDown, each followed at once by the keyUp of
\* its key; the last keyDown may still be awaited
DownUpPairs ==
    \A i \in 1..Len(dispatched) :
       IF i % 2 = 1
       THEN /\ dispatched[i].type = "keyDown"
            /\ i < Len(dispatched) \/ lpc \in {"wrong_down", "back_down", "char_down"}
       ELSE /\ dispatched[i].type = "keyUp"
            /\ dispatched[i].key = dispatched[i - 1].key

\* C28: in a run that is neither cancelled nor failed the dispatch calls are
\* keyDown/keyUp pairs of one key, so at most one key is down at any time;
\* once a dispatch call has failed the coroutine is left and nothing more is
\* dispatched
C28_PairsAndNoDispatchAfterFailure ==
    /\ [](lpc \notin {"cancelled", "raised"} =>
            /\ DownUpPairs
            /\ \A n \in 0..Len(dispatched) : KeysDown(n) \in {0, 1}
            /\ lpc = "returned" => KeysDown(Len(dispatched)) = 0)
    /\ [][lpc = "raised" => (lpc' = "raised" /\ dispatched' = dispatched)]_vars
    /\ [][(lpc \in InSend /\ lpc' = "raised") => dispatched' = dispatched]_vars

\* a finished run with a corrected typo: wrong key, Backspace and character,
\* each down and up
C28_Witness ==
    /\ lpc = "returned"
    /\ typo_count = 1
    /\ Len(dispatched) = 6
    /\ dispatched[1].key # dispatched[5].key
    /\ dispatched[3].key = "Backspace"

(***************************************************************************)
(* analyze_frame: frames without a content row                             *)
(***************************************************************************)
\* C30: a frame reported fully visible has at least one content row, and
\* both margins lie between 0 and 1 (held as rows, between 0 and the height)
C30_FullyVisibleHasContentRow ==
    apc = "returned" =>
        /\ analysis.is_fully_visible =>
              ContentRowsOf(pixels, extraction_config) # {}
        /\ analysis.top_margin \in 0..pixels.height
        /\ analysis.bottom_margin \in 0..pixels.height

\* the margins alone: they always lie between 0 and 1
C30_MarginsInUnitInterval ==
    apc = "returned" =>
        /\ analysis.top_margin \in 0..pixels.height
        /\ analysis.bottom_margin \in 0..pixels.height

(***************************************************************************)
(* extract_distinct_frames: what deduplicate_frames is given               *)
(***************************************************************************)
\* the positions (from 0) of the decoded frames that are neither blank nor cut
VisiblePositions ==
    {i \in 0..(Len(sampled) - 1) :
        LET a == analyze_frame(i + 1, sampled[i + 1], ExtractionConfig)
        IN  ~a.is_blank /\ a.is_fully_visible}

\* C29: whatever the order in which the analyses complete, deduplicate_frames
\* is given exactly the non-blank fully visible frames, in ascending frame
\* order, each with its position in the decoded sequence; the indices are
\* strictly increasing
C29_KeptInFrameOrder ==
    xpc = "returned" =>
        /\ Len(kept_frames) = Len(kept_indices)
        /\ kept_indices = SortedSeq(VisiblePositions)
        /\ \A k \in 1..Len(kept_frames) :
              kept_frames[k] =
                  analyze_frame(kept_indices[k] + 1, sampled[kept_indices[k] + 1],
                                ExtractionConfig)
        /\ \A j \in 1..Len(kept_indices) : \A k \in 1..Len(kept_indices) :
              j < k => kept_indices[j] < kept_indices[k]

\* the analyses completed last frame first, a cut frame between two kept ones
C29_Witness ==
    /\ xpc = "returned"
    /\ analysed_order = <<3, 2, 1>>
    /\ kept_indices = <<0, 2>>
    /\ kept_frames[1] # kept_frames[2]

(***************************************************************************)
(* simulate_typing and human_type_cdp: the decisions per character         *)
(***************************************************************************)
\* C27: for the same text, rates and draws, the delay before each character
\* and the keys produced for each character are the same in human_type_cdp
\* as in the log of simulate_typing
C27_SameDecisions ==
    /\ offline_delays = live_delays
    /\ offline_keys = live_keys

\* what does agree: the keys, when simulate_typing corrects every typo
SameKeysWhenCorrected ==
    (both_cfg.typo_correction_rate = 10 \/ both_cfg.typo_rate = 0) =>
        offline_keys = live_keys

====
